---- MODULE Spec2Model ----
(***************************************************************************)
(* A model of the reconciliation pipeline of f5-declarative-onboarding:    *)
(* the Reconciler (nodejs/diffHandler.js) and the Declaration Normalizer   *)
(* (nodejs/declarationParser.js).                                          *)
(*                                                                         *)
(* JavaScript documents are modelled on an explicit heap, because what the *)
(* code does to its arguments (clone, alias, mutate in place) is part of   *)
(* what is verified.  A value is either a scalar or a reference to a heap  *)
(* node; a node is an object or an array and keeps its properties in       *)
(* insertion order, as Object.keys enumerates them.                        *)
(***************************************************************************)
EXTENDS Integers, Sequences, FiniteSets, TLC

VARIABLES
    heap,             \* the JavaScript heap: a sequence of nodes, address = index
    pc,               \* position of the driver that calls the component under check
    desired,          \* DiffHandler: the literal document passed as toDeclaration
    current,          \* DiffHandler: the literal document passed as fromDeclaration
    toDeclaration,    \* DiffHandler: the caller's reference to the desired document
    fromDeclaration,  \* DiffHandler: the caller's reference to the current document
    run1,             \* DiffHandler: outcome of process(toDeclaration, fromDeclaration):
                      \*   threw, the resolved document final, updatedPaths, the working
                      \*   copies to and from, and merged, the text of final on return
    run2,             \* DiffHandler: outcome of process(toDeclaration, run1.final)
    declText,         \* DeclarationParser: the declaration as the caller wrote it
    userDeclaration,  \* DeclarationParser: the caller's reference to the declaration
    parser,           \* DeclarationParser: the newest parser: its this.declaration and
                      \*   the number of parse() calls made on it
    parses,           \* DeclarationParser: the outcomes of the parse() calls so far:
                      \*   threw, tenants, the returned document parsed, its text on
                      \*   return, the caller's declaration before and after the call,
                      \*   and fresh: the call was the first of its parser
    configManager,    \* ConfigManager: the instance: this.configItems, this.configId
    bigIp,            \* ConfigManager: the device behind this.bigIp
    taskState,        \* ConfigManager: the caller's reference to the state of its task
    doState,          \* ConfigManager: the store of original configs by config id
                      \*   (originalConfig), and whether it copies what it is given
    reads,            \* ConfigManager: the device reads of the running get, in the
                      \*   order they were issued
    get,              \* ConfigManager: the locals of the running get, how it ended
                      \*   (error), its accesses to the store (log), and state and
                      \*   store as they were when it was called (before)
    fetched,          \* ConfigManager: the number of get calls so far
    auth,             \* ConfigManager: a call of patchAuth, its arguments (and
                      \*   their text before the call) and what it returned
    other,            \* ConfigManager: a second get on the same store whose
                      \*   handlers run between those of the first: its pc, the
                      \*   state of its task, its reads and its locals, while the
                      \*   variables pc, taskState, reads and get hold those of
                      \*   the get whose handler runs
    system            \* SystemHandler: the declaration it was built with, the
                      \*   device, the calls of the device made so far and where
                      \*   the promise chain of process stands

diffVars == <<desired, current, toDeclaration, fromDeclaration, run1, run2>>
parseVars == <<declText, userDeclaration, parser, parses>>
fetchVars == <<configManager, bigIp, taskState, doState, reads, get, fetched, auth, other>>
systemVars == <<system>>
vars == <<heap, pc, diffVars, parseVars, fetchVars, systemVars>>

-----------------------------------------------------------------------------
(* JavaScript values.  Every value is a record of one shape so that any two *)
(* of them can be compared: t is the kind, s the text of a string, r the    *)
(* number, the truth value (0/1) or the heap address.                       *)

Undef == [t |-> "undefined", s |-> "", r |-> 0]
Null == [t |-> "null", s |-> "", r |-> 0]
Str(x) == [t |-> "string", s |-> x, r |-> 0]
Num(n) == [t |-> "number", s |-> "", r |-> n]
Bool(b) == [t |-> "boolean", s |-> "", r |-> IF b THEN 1 ELSE 0]
Ref(a) == [t |-> "ref", s |-> "", r |-> a]

\* An own property of a node: key and value, kept in insertion order.
Entry(k, v) == [key |-> k, val |-> v]

\* The key of array index i (JavaScript property keys are strings).
IdxKey(i) == ToString(i)

\* Array.isArray(v)
IsArray(h, v) == v.t = "ref" /\ h[v.r].k = "arr"

\* v is a (non-null) object that is not an array
IsPlainObject(h, v) == v.t = "ref" /\ h[v.r].k = "obj"

\* typeof v
TypeOf(v) ==
    CASE v.t = "ref" -> "object"
      [] v.t = "null" -> "object"
      [] OTHER -> v.t

\* ToBoolean(v), as used by `if (x)` and `!x`
Truthy(v) ==
    CASE v.t = "undefined" -> FALSE
      [] v.t = "null" -> FALSE
      [] v.t = "boolean" -> v.r = 1
      [] v.t = "number" -> v.r # 0
      [] v.t = "string" -> v.s # ""
      [] OTHER -> TRUE

\* The position of key in a sequence of entries, 0 when it is not there.
RECURSIVE IndexOfKey(_, _, _)
IndexOfKey(e, key, i) ==
    IF i > Len(e) THEN 0
    ELSE IF e[i].key = key THEN i
    ELSE IndexOfKey(e, key, i + 1)

\* Array.prototype.indexOf on a sequence of strings, -1 when absent (0-based).
RECURSIVE IndexOf(_, _, _)
IndexOf(seq, x, i) ==
    IF i > Len(seq) THEN -1
    ELSE IF seq[i] = x THEN i - 1
    ELSE IndexOf(seq, x, i + 1)

Hole == [t |-> "hole", s |-> "", r |-> 0]

\* Object.keys(v) for an object or an array: own keys in insertion order.
\* Holes of an array (left by a write past its end) are not own properties.
OwnEntries(h, v) == SelectSeq(h[v.r].e, LAMBDA en : ~(h[v.r].k = "arr" /\ en.val.t = "hole"))

KeysOf(h, v) == [i \in 1..Len(OwnEntries(h, v)) |-> OwnEntries(h, v)[i].key]

\* v[key] for an object or an array; undefined when there is no such property.
GetProp(h, v, key) ==
    LET e == h[v.r].e
        i == IndexOfKey(e, key, 1)
    IN  IF i = 0 \/ e[i].val.t = "hole" THEN Undef ELSE e[i].val

\* v[key] = val on an object: an existing key keeps its place, a new one is appended.
SetProp(h, v, key, val) ==
    LET e == h[v.r].e
        i == IndexOfKey(e, key, 1)
    IN  [h EXCEPT ![v.r].e =
            IF i = 0 THEN Append(e, Entry(key, val)) ELSE [e EXCEPT ![i].val = val]]

\* delete v[key]
DelProp(h, v, key) ==
    [h EXCEPT ![v.r].e = SelectSeq(@, LAMBDA en : en.key # key)]

\* arr[i] = val (0-based); a write past the end leaves holes in between.
SetIdx(h, v, i, val) ==
    LET e == h[v.r].e
        n == Len(e)
    IN  [h EXCEPT ![v.r].e =
            IF i < n THEN [e EXCEPT ![i + 1].val = val]
            ELSE [j \in 1..(i + 1) |->
                    IF j <= n THEN e[j]
                    ELSE IF j = i + 1 THEN Entry(IdxKey(i), val)
                    ELSE Entry(IdxKey(j - 1), Hole)]]

\* A fresh empty object / array: the extended heap and the reference to it.
NewNode(h, kind) == [h |-> Append(h, [k |-> kind, e |-> <<>>]), v |-> Ref(Len(h) + 1)]

-----------------------------------------------------------------------------
(* Literal documents (JSON text): a tree of one record shape.  e holds the  *)
(* members of an object in their written order, or the elements of an array *)
(* keyed by index.                                                          *)

LStr(x) == [t |-> "string", s |-> x, r |-> 0, e |-> <<>>]
LNum(n) == [t |-> "number", s |-> "", r |-> n, e |-> <<>>]
LBool(b) == [t |-> "boolean", s |-> "", r |-> IF b THEN 1 ELSE 0, e |-> <<>>]
LNull == [t |-> "null", s |-> "", r |-> 0, e |-> <<>>]
LAbsent == [t |-> "undefined", s |-> "", r |-> 0, e |-> <<>>]
LObj(entries) == [t |-> "obj", s |-> "", r |-> 0, e |-> entries]
LArr(elems) ==
    [t |-> "arr", s |-> "", r |-> 0,
     e |-> [i \in 1..Len(elems) |-> Entry(IdxKey(i - 1), elems[i])]]

\* The members of a literal object, leaving out those written as absent.
Members(entries) == SelectSeq(entries, LAMBDA en : en.val.t # "undefined")

\* JSON.parse of a literal: allocates the document, members in written order.
RECURSIVE ParseJSON(_, _)
RECURSIVE ParseMembers(_, _, _, _)
ParseMembers(h, entries, i, acc) ==
    IF i > Len(entries) THEN [h |-> h, e |-> acc]
    ELSE LET c == ParseJSON(h, entries[i].val)
         IN  ParseMembers(c.h, entries, i + 1, Append(acc, Entry(entries[i].key, c.v)))

ParseJSON(h, lit) ==
    IF lit.t \notin {"obj", "arr"} THEN [h |-> h, v |-> [t |-> lit.t, s |-> lit.s, r |-> lit.r]]
    ELSE LET m == ParseMembers(h, lit.e, 1, <<>>)
         IN  [h |-> Append(m.h, [k |-> lit.t, e |-> m.e]), v |-> Ref(Len(m.h) + 1)]

\* JSON.stringify of a value: the literal it serializes to.  A member whose
\* value is undefined is left out; an undefined element or a hole of an array
\* is written as null.
RECURSIVE StringifyJSON(_, _)
StringifyJSON(h, v) ==
    IF v.t = "hole" THEN LNull
    ELSE IF v.t # "ref" THEN [t |-> v.t, s |-> v.s, r |-> v.r, e |-> <<>>]
    ELSE LET n == h[v.r]
             all == [i \in 1..Len(n.e) |-> Entry(n.e[i].key, StringifyJSON(h, n.e[i].val))]
         IN  IF n.k = "arr"
             THEN [t |-> "arr", s |-> "", r |-> 0,
                   e |-> [i \in 1..Len(all) |->
                            IF all[i].val.t = "undefined" THEN Entry(all[i].key, LNull) ELSE all[i]]]
             ELSE [t |-> "obj", s |-> "", r |-> 0,
                   e |-> SelectSeq(all, LAMBDA en : en.val.t # "undefined")]

\* The content of a literal up to the order of object members: what a deep
\* equality (assert.deepEqual) compares.
RECURSIVE Canon(_)
Canon(lit) ==
    [t |-> lit.t, s |-> lit.s, r |-> lit.r,
     f |-> [key \in {lit.e[i].key : i \in 1..Len(lit.e)} |->
              Canon(lit.e[IndexOfKey(lit.e, key, 1)].val)]]

\* The content of the value v of heap h, up to member order.
RECURSIVE Content(_, _)
Content(h, v) ==
    IF v.t # "ref" THEN [t |-> v.t, s |-> v.s, r |-> v.r, f |-> <<>>]
    ELSE LET en == OwnEntries(h, v)
         IN  [t |-> h[v.r].k, s |-> "", r |-> 0,
              f |-> [key \in {en[i].key : i \in 1..Len(en)} |->
                       Content(h, en[IndexOfKey(en, key, 1)].val)]]

\* The own keys of a content, and its member under a key (absent when it
\* has none): an object or array has its members, a string its characters.
CAbsent == [t |-> "undefined", s |-> "", r |-> 0, f |-> <<>>]
CStr(x) == [t |-> "string", s |-> x, r |-> 0, f |-> <<>>]
CKeys(c) ==
    IF c.t \in {"obj", "arr"} THEN DOMAIN c.f
    ELSE IF c.t = "string" THEN {IdxKey(i) : i \in 0..(Len(c.s) - 1)}
    ELSE {}
CHas(c, key) == key \in CKeys(c)
CGet(c, key) ==
    IF ~CHas(c, key) THEN CAbsent
    ELSE IF c.t = "string"
    THEN LET i == CHOOSE j \in 0..(Len(c.s) - 1) : IdxKey(j) = key
         IN  CStr(SubSeq(c.s, i + 1, i + 1))
    ELSE c.f[key]

-----------------------------------------------------------------------------
(* deep-diff 1.0.2 (package.json: "deep-diff": "^1.0.2"), the library that  *)
(* DiffHandler.process drives: observableDiff collects the differences of   *)
(* two documents and hands each to the observer; applyChange applies one    *)
(* difference to the target document in place.                              *)

\* One segment of a difference's path: a property key or an array index.
PKey(k) == [n |-> FALSE, k |-> k, i |-> 0]
PIdx(i) == [n |-> TRUE, k |-> IdxKey(i), i |-> i]

NoItem == [kind |-> "", lhs |-> Undef, rhs |-> Undef]
DiffNew(path, rhs) ==
    [kind |-> "N", path |-> path, lhs |-> Undef, rhs |-> rhs, index |-> 0, item |-> NoItem]
DiffDeleted(path, lhs) ==
    [kind |-> "D", path |-> path, lhs |-> lhs, rhs |-> Undef, index |-> 0, item |-> NoItem]
DiffEdit(path, lhs, rhs) ==
    [kind |-> "E", path |-> path, lhs |-> lhs, rhs |-> rhs, index |-> 0, item |-> NoItem]
DiffArray(path, index, item) ==
    [kind |-> "A", path |-> path, lhs |-> Undef, rhs |-> Undef, index |-> index, item |-> item]

\* realTypeOf(v) of deep-diff: typeof, with arrays and null told apart.
RealTypeOf(h, v) ==
    CASE v.t = "ref" -> IF h[v.r].k = "arr" THEN "array" ELSE "object"
      [] OTHER -> v.t

\* deepDiff(lhs, rhs, changes, prefilter, path, key, stack): the differences
\* of lhs against rhs, in the order deep-diff pushes them.  path is the path
\* of lhs and rhs with key already appended.  The documents compared are
\* trees (clones made by JSON.parse), so the cycle stack never finds a node.
RECURSIVE DeepDiff(_, _, _, _)
RECURSIVE DiffElems(_, _, _, _, _)
RECURSIVE DiffNewElems(_, _, _, _, _)
RECURSIVE DiffDelElems(_, _, _, _, _)
RECURSIVE DiffLhsKeys(_, _, _, _, _, _)
RECURSIVE DiffRhsKeys(_, _, _, _, _, _)

\* while (i > j) changes.push(new DiffArray(currentPath, i, new DiffNew(undefined, rhs[i--])))
DiffNewElems(h, rhs, path, i, j) ==
    IF i > j
    THEN <<DiffArray(path, i, [kind |-> "N", lhs |-> Undef, rhs |-> GetProp(h, rhs, IdxKey(i))])>>
         \o DiffNewElems(h, rhs, path, i - 1, j)
    ELSE <<>>

\* while (j > i) changes.push(new DiffArray(currentPath, j, new DiffDeleted(undefined, lhs[j--])))
DiffDelElems(h, lhs, path, i, j) ==
    IF j > i
    THEN <<DiffArray(path, j, [kind |-> "D", lhs |-> GetProp(h, lhs, IdxKey(j)), rhs |-> Undef])>>
         \o DiffDelElems(h, lhs, path, i, j - 1)
    ELSE <<>>

\* for (; i >= 0; --i) deepDiff(lhs[i], rhs[i], ..., currentPath, i, ...)
DiffElems(h, lhs, rhs, path, i) ==
    IF i >= 0
    THEN DeepDiff(h, GetProp(h, lhs, IdxKey(i)), GetProp(h, rhs, IdxKey(i)), Append(path, PIdx(i)))
         \o DiffElems(h, lhs, rhs, path, i - 1)
    ELSE <<>>

\* the loop over akeys: a key of lhs is compared with rhs's member, or with
\* undefined when rhs has no such key
DiffLhsKeys(h, lhs, rhs, path, akeys, i) ==
    IF i > Len(akeys) THEN <<>>
    ELSE LET k == akeys[i]
             inRhs == IndexOf(KeysOf(h, rhs), k, 1)
         IN  DeepDiff(h, GetProp(h, lhs, k),
                      IF inRhs >= 0 THEN GetProp(h, rhs, k) ELSE Undef,
                      Append(path, PKey(k)))
             \o DiffLhsKeys(h, lhs, rhs, path, akeys, i + 1)

\* the loop over pkeys: the keys of rhs that lhs lacks (a matched key was set
\* to null; `if (k)` also skips the empty key)
DiffRhsKeys(h, lhs, rhs, path, pkeys, i) ==
    IF i > Len(pkeys) THEN <<>>
    ELSE LET k == pkeys[i]
         IN  (IF k # "" /\ IndexOf(KeysOf(h, lhs), k, 1) = -1
              THEN DeepDiff(h, Undef, GetProp(h, rhs, k), Append(path, PKey(k)))
              ELSE <<>>)
             \o DiffRhsKeys(h, lhs, rhs, path, pkeys, i + 1)

DeepDiff(h, lhs, rhs, path) ==
    LET ldefined == TypeOf(lhs) # "undefined"
        rdefined == TypeOf(rhs) # "undefined"
    IN  IF ~ldefined /\ rdefined THEN <<DiffNew(path, rhs)>>
        ELSE IF ~rdefined /\ ldefined THEN <<DiffDeleted(path, lhs)>>
        ELSE IF RealTypeOf(h, lhs) # RealTypeOf(h, rhs) THEN <<DiffEdit(path, lhs, rhs)>>
        ELSE IF TypeOf(lhs) = "object" /\ lhs.t # "null" /\ rhs.t # "null"
        THEN IF IsArray(h, lhs)
             THEN LET i == Len(h[rhs.r].e) - 1
                      j == Len(h[lhs.r].e) - 1
                      m == IF i < j THEN i ELSE j
                  IN  DiffNewElems(h, rhs, path, i, j)
                      \o DiffDelElems(h, lhs, path, i, j)
                      \o DiffElems(h, lhs, rhs, path, m)
             ELSE DiffLhsKeys(h, lhs, rhs, path, KeysOf(h, lhs), 1)
                  \o DiffRhsKeys(h, lhs, rhs, path, KeysOf(h, rhs), 1)
        ELSE IF lhs # rhs THEN <<DiffEdit(path, lhs, rhs)>>
        ELSE <<>>

\* it[seg] and it[seg] = val, for a path segment
GetMember(h, it, seg) == IF it.t = "ref" THEN GetProp(h, it, seg.k) ELSE Undef
SetMember(h, it, seg, val) ==
    IF IsArray(h, it) /\ seg.n THEN SetIdx(h, it, seg.i, val) ELSE SetProp(h, it, seg.k, val)

\* arrayRemove(arr, from): the array without the element at index from
ArrayRemove(h, arr, from) ==
    LET e == h[arr.r].e
        kept == SubSeq(e, 1, from) \o SubSeq(e, from + 2, Len(e))
    IN  [h EXCEPT ![arr.r].e = [i \in 1..Len(kept) |-> Entry(IdxKey(i - 1), kept[i].val)]]

\* applyArrayChange(arr, index, change) for an item without a path
ApplyArrayChange(h, arr, index, item) ==
    CASE item.kind = "D" -> ArrayRemove(h, arr, index)
      [] item.kind \in {"E", "N"} -> SetIdx(h, arr, index, item.rhs)
      [] OTHER -> h

\* the loop `while (++i < last)` of applyChange: walks down change.path from
\* target, creating a missing container on the way ([] before an index, {}
\* before a key); yields the heap and the container of the last segment
RECURSIVE WalkPath(_, _, _, _)
WalkPath(h, it, path, i) ==
    IF i >= Len(path) THEN [h |-> h, it |-> it]
    ELSE IF TypeOf(GetMember(h, it, path[i])) = "undefined"
    THEN LET n == NewNode(h, IF path[i + 1].n THEN "arr" ELSE "obj")
         IN  WalkPath(SetMember(n.h, it, path[i], n.v), n.v, path, i + 1)
    ELSE WalkPath(h, GetMember(h, it, path[i]), path, i + 1)

\* applyChange(target, source, change): the heap after change was applied to
\* target in place
ApplyChange(h, target, change) ==
    LET w == WalkPath(h, target, change.path, 1)
        seg == IF Len(change.path) = 0 THEN PKey("undefined")
               ELSE change.path[Len(change.path)]
    IN  CASE change.kind = "A" ->
                IF TypeOf(GetMember(w.h, w.it, seg)) = "undefined"
                THEN LET n == NewNode(w.h, "arr")
                     IN  ApplyArrayChange(SetMember(n.h, w.it, seg, n.v), n.v,
                                          change.index, change.item)
                ELSE ApplyArrayChange(w.h, GetMember(w.h, w.it, seg), change.index, change.item)
          [] change.kind = "D" -> DelProp(w.h, w.it, seg.k)
          [] OTHER -> SetMember(w.h, w.it, seg, change.rhs)

-----------------------------------------------------------------------------
(* nodejs/diffHandler.js                                                    *)

\* The classes the handler is constructed with (constructor argument
\* classesOfTruth); every other class is passed through.
classesOfTruth == <<"hostname", "DNS">>

\* Object.assign(target, source): the own properties of source are set on
\* target, shallowly; a string has its characters under index keys; a null, an
\* undefined or a number or boolean source has none.
RECURSIVE AssignEntries(_, _, _, _)
AssignEntries(h, target, entries, i) ==
    IF i > Len(entries) THEN h
    ELSE AssignEntries(SetProp(h, target, entries[i].key, entries[i].val), target, entries, i + 1)

ObjectAssign(h, target, source) ==
    IF source.t = "ref" THEN AssignEntries(h, target, OwnEntries(h, source), 1)
    ELSE IF source.t = "string"
    THEN AssignEntries(h, target,
             [i \in 1..Len(source.s) |-> Entry(IdxKey(i - 1), Str(SubSeq(source.s, i, i)))], 1)
    ELSE h

\* arr.slice(): a new array with the same elements
ArraySlice(h, arr) ==
    [h |-> Append(h, [k |-> "arr", e |-> h[arr.r].e]), v |-> Ref(Len(h) + 1)]

\* JSONClone without the round trip: the working copy is the argument itself.
JSONCloneAliased(h, v) == [h |-> h, v |-> v]

\* JSON.parse(JSON.stringify(v))
JSONClone(h, v) == ParseJSON(h, StringifyJSON(h, v))

\* PopulateKey without the test for classes of truth: every class is seeded.
PopulateKeyUnfiltered(h, declaration, truth, uninteresting, key) ==
    LET val == GetProp(h, declaration, key)
    IN  IF TypeOf(val) = "string" THEN SetProp(h, uninteresting, key, val)
        ELSE IF TypeOf(val) = "object"
        THEN LET n == NewNode(h, "obj")
             IN  ObjectAssign(SetProp(n.h, uninteresting, key, n.v), n.v, val)
        ELSE h

\* the body of the forEach of populateNonTruthClasses for one key
PopulateKey(h, declaration, truth, uninteresting, key) ==
    LET val == GetProp(h, declaration, key)
    IN  IF IndexOf(truth, key, 1) = -1
        THEN IF TypeOf(val) = "string" THEN SetProp(h, uninteresting, key, val)
             ELSE IF TypeOf(val) = "object"
             THEN LET n == NewNode(h, "obj")
                  IN  ObjectAssign(SetProp(n.h, uninteresting, key, n.v), n.v, val)
             ELSE IF IsArray(h, val)
             THEN LET c == ArraySlice(h, val)
                  IN  SetProp(c.h, uninteresting, key, c.v)
             ELSE h
        ELSE h

RECURSIVE PopulateKeys(_, _, _, _, _, _)
PopulateKeys(h, declaration, truth, uninteresting, keys, i) ==
    IF i > Len(keys) THEN h
    ELSE PopulateKeys(PopulateKey(h, declaration, truth, uninteresting, keys[i]),
                      declaration, truth, uninteresting, keys, i + 1)

\* populateNonTruthClasses(declaration, classesOfTruth).  Object.keys throws
\* a TypeError on undefined and null, and finds no key on a number or boolean.
populateNonTruthClasses(h, declaration, truth) ==
    IF declaration.t \in {"undefined", "null"} THEN [h |-> h, v |-> Undef, threw |-> TRUE]
    ELSE LET n == NewNode(h, "obj")
         IN  [h |-> IF declaration.t = "ref"
                    THEN PopulateKeys(n.h, declaration, truth, n.v, KeysOf(n.h, declaration), 1)
                    ELSE n.h,
              v |-> n.v, threw |-> FALSE]

\* IsPathOfTruth reading the first segment of the path (diff.path[0]).
IsPathOfTruthFirstSegment(truth, diff) ==
    /\ Len(diff.path) >= 1
    /\ ~diff.path[1].n
    /\ IndexOf(truth, diff.path[1].k, 1) # -1

\* the test of the observer: classesOfTruth.indexOf(diff.path[1]) !== -1
\* (diff.path[1] is undefined for a path of one segment, and a number when
\* the second segment is an array index: neither is in the list)
IsPathOfTruth(truth, diff) ==
    /\ Len(diff.path) >= 2
    /\ ~diff.path[2].n
    /\ IndexOf(truth, diff.path[2].k, 1) # -1

\* the observer passed to observableDiff, called for one difference: st is
\* the heap and the updatedPaths so far
ObserveDiff(st, from, truth, diff) ==
    IF IsPathOfTruth(truth, diff)
    THEN [h |-> ApplyChange(st.h, from, diff),
          updatedPaths |-> IF IndexOf(st.updatedPaths, diff.path[2].k, 1) = -1
                           THEN Append(st.updatedPaths, diff.path[2].k)
                           ELSE st.updatedPaths]
    ELSE st

\* observableDiff(from, to, observer): every collected difference is handed
\* to the observer, in order
RECURSIVE ObserveAll(_, _, _, _, _)
ObserveAll(st, from, truth, changes, i) ==
    IF i > Len(changes) THEN st
    ELSE ObserveAll(ObserveDiff(st, from, truth, changes[i]), from, truth, changes, i + 1)

\* the body of `updatedPaths.forEach` for one path: the class is copied from
\* the converged working copy into final.Common
CopyUpdatedPath(h, fromCommon, finalCommon, path) ==
    LET val == GetProp(h, fromCommon, path)
    IN  IF TypeOf(val) = "string" THEN SetProp(h, finalCommon, path, val)
        ELSE IF IsArray(h, val)
        THEN LET c == ArraySlice(h, val)
             IN  SetProp(c.h, finalCommon, path, c.v)
        ELSE LET n == NewNode(h, "obj")
             IN  ObjectAssign(SetProp(n.h, finalCommon, path, n.v), n.v, val)

RECURSIVE CopyUpdatedPaths(_, _, _, _, _)
CopyUpdatedPaths(h, fromCommon, finalCommon, paths, i) ==
    IF i > Len(paths) THEN h
    ELSE CopyUpdatedPaths(CopyUpdatedPath(h, fromCommon, finalCommon, paths[i]),
                          fromCommon, finalCommon, paths, i + 1)

NoRun ==
    [threw |-> FALSE, final |-> Undef, updatedPaths |-> <<>>, to |-> Undef, from |-> Undef,
     merged |-> LAbsent]

\* DiffHandler.process(toDeclaration, fromDeclaration): the heap after the
\* call and its outcome: the document the promise resolves with, or threw
\* when a TypeError leaves the call.  to and from are the working copies.
Process(h0, toDecl, fromDecl, truth) ==
    LET c1 == JSONClone(h0, toDecl)
        c2 == JSONClone(c1.h, fromDecl)
        to == c1.v
        from == c2.v
        p == populateNonTruthClasses(c2.h, GetMember(c2.h, to, PKey("Common")), truth)
    IN  IF p.threw
        THEN [h |-> p.h, threw |-> TRUE, final |-> Undef, updatedPaths |-> <<>>,
              to |-> to, from |-> from]
        ELSE LET f == NewNode(p.h, "obj")
                 h1 == SetProp(f.h, f.v, "Common", p.v)
                 changes == DeepDiff(h1, from, to, <<>>)
                 ob == ObserveAll([h |-> h1, updatedPaths |-> <<>>], from, truth, changes, 1)
                 fromCommon == GetMember(ob.h, from, PKey("Common"))
             IN  IF ob.updatedPaths # <<>> /\ fromCommon.t \in {"undefined", "null"}
                 THEN [h |-> ob.h, threw |-> TRUE, final |-> Undef,
                       updatedPaths |-> ob.updatedPaths, to |-> to, from |-> from]
                 ELSE [h |-> IF fromCommon.t = "ref"
                             THEN CopyUpdatedPaths(ob.h, fromCommon, p.v, ob.updatedPaths, 1)
                             ELSE ob.h,
                       threw |-> FALSE, final |-> f.v, updatedPaths |-> ob.updatedPaths,
                       to |-> to, from |-> from]

-----------------------------------------------------------------------------
(* The documents the reconciler is checked on.                              *)

\* the longest array among the class values
MaxArrLen == 2

\* the class that is not a class of truth
OtherClass == "Other"

ArrElems == {LStr("a"), LStr("b")}
ArrayValues == {LArr(sq) : sq \in UNION {[1..n -> ArrElems] : n \in 0..MaxArrLen}}

ObjectValues ==
    {LObj(Members(<<Entry("p", x), Entry("q", y)>>)) :
        x \in {LAbsent, LStr("a"), LStr("b"), LObj(<<Entry("r", LStr("a"))>>)},
        y \in {LAbsent, LStr("a")}}

ScalarValues == {LStr("a"), LStr("b"), LNum(1), LBool(TRUE), LNull}

\* every kind of value a class can hold, and the class being absent
ClassValues == {LAbsent} \cup ScalarValues \cup ArrayValues \cup ObjectValues

\* one value of each kind
KindValues ==
    {LAbsent, LStr("a"), LNum(1), LBool(TRUE), LNull, LArr(<<LStr("a")>>),
     LObj(<<Entry("p", LStr("a"))>>)}

CommonDoc(v1, v2, v3) ==
    LObj(<<Entry("Common",
                 LObj(Members(<<Entry("hostname", v1), Entry("DNS", v2), Entry(OtherClass, v3)>>)))>>)

\* the same document written with its classes in the opposite order
CommonDocRev(v1, v2, v3) ==
    LObj(<<Entry("Common",
                 LObj(Members(<<Entry(OtherClass, v3), Entry("DNS", v2), Entry("hostname", v1)>>)))>>)

PA == LObj(<<Entry("p", LStr("a"))>>)
PB == LObj(<<Entry("p", LStr("b"))>>)

DesiredDocs ==
    {CommonDoc(v1, v2, LAbsent) : v1 \in {LAbsent, LStr("a")}, v2 \in ClassValues}
    \cup {CommonDoc(LAbsent, v2, v3) : v2 \in {LAbsent, PA}, v3 \in KindValues}
    \cup {LObj(<<>>)}

CurrentDocs ==
    {CommonDocRev(v1, v2, LAbsent) : v1 \in {LAbsent, LStr("a"), LStr("b")}, v2 \in ClassValues}
    \cup {CommonDocRev(LAbsent, v2, v3) : v2 \in {LAbsent, PB}, v3 \in {LAbsent, LStr("b"), PA}}
    \cup {LObj(<<>>)}

-----------------------------------------------------------------------------
(* The reconciler's driver: a caller builds the two documents, calls        *)
(* process, and then calls process again with the merged document as the    *)
(* new current document.                                                    *)

\* no get is running
NoGet ==
    [declaration |-> Undef, dbVarsOfInterest |-> <<>>, provisionedModules |-> <<>>,
     tokenMap |-> [hostName |-> Undef, deviceName |-> Undef], currentConfig |-> Undef,
     referenceInfo |-> <<>>, error |-> [kind |-> "", read |-> 0], log |-> <<>>,
     before |-> [currentConfig |-> Undef, originalConfig |-> Undef, state |-> LAbsent,
                 doState |-> <<>>, stored |-> <<>>]]

\* patchAuth is not called
NoAuth ==
    [schemaMerge |-> Undef, authClass |-> Undef, authItem |-> Undef, patchedClass |-> Undef,
     threw |-> FALSE, text |-> [schemaMerge |-> LAbsent, authClass |-> LAbsent, authItem |-> LAbsent]]

\* no SystemHandler
NoSystem ==
    [declaration |-> Undef, bigIp |-> [user |-> "", dhcp |-> <<>>], status |-> "none", error |-> 0,
     calls |-> <<>>, started |-> <<>>, side |-> "none", waiting |-> FALSE,
     optionsToDisable |-> <<>>, ret |-> "", by |-> "", requiresDhcpRestart |-> FALSE, tries |-> 0]

\* no second get
NoOther == [pc |-> "none", taskState |-> Undef, reads |-> <<>>, get |-> NoGet]

\* the ConfigManager is not part of this run
NoFetch ==
    /\ configManager = [configItems |-> Undef, configId |-> Undef]
    /\ bigIp = [machineId |-> "", db |-> "", flag |-> "", prefix |-> "", avr |-> ""]
    /\ taskState = Undef
    /\ doState = [originalConfig |-> <<>>, copies |-> FALSE]
    /\ reads = <<>>
    /\ get = NoGet
    /\ fetched = 0
    /\ auth = NoAuth
    /\ other = NoOther
    /\ system = NoSystem

DiffInit ==
    /\ desired \in DesiredDocs
    /\ current \in CurrentDocs
    /\ LET d == ParseJSON(<<>>, desired)
           c == ParseJSON(d.h, current)
       IN  /\ heap = c.h
           /\ toDeclaration = d.v
           /\ fromDeclaration = c.v
    /\ pc = "diff"
    /\ run1 = NoRun
    /\ run2 = NoRun
    /\ declText = LAbsent
    /\ userDeclaration = Undef
    /\ parser = [declaration |-> Undef, calls |-> 0]
    /\ parses = <<>>
    /\ NoFetch

\* diffHandler.process(toDeclaration, fromDeclaration)
DiffProcess ==
    /\ pc = "diff"
    /\ \E r \in {Process(heap, toDeclaration, fromDeclaration, classesOfTruth)} :
           /\ heap' = r.h
           /\ run1' = [threw |-> r.threw, final |-> r.final, updatedPaths |-> r.updatedPaths,
                       to |-> r.to, from |-> r.from,
                       merged |-> StringifyJSON(r.h, r.final)]
           /\ pc' = IF r.threw THEN "threw" ELSE "processed"
    /\ UNCHANGED <<desired, current, toDeclaration, fromDeclaration, run2, parseVars, fetchVars, systemVars>>

\* diffHandler.process(toDeclaration, merged), merged being the first result
DiffReprocess ==
    /\ pc = "processed"
    /\ \E r \in {Process(heap, toDeclaration, run1.final, classesOfTruth)} :
           /\ heap' = r.h
           /\ run2' = [threw |-> r.threw, final |-> r.final, updatedPaths |-> r.updatedPaths,
                       to |-> r.to, from |-> r.from,
                       merged |-> StringifyJSON(r.h, r.final)]
           /\ pc' = "reprocessed"
    /\ UNCHANGED <<desired, current, toDeclaration, fromDeclaration, run1, parseVars, fetchVars, systemVars>>

DiffNext == DiffProcess \/ DiffReprocess

DiffSpec == DiffInit /\ [][DiffNext]_vars

-----------------------------------------------------------------------------
(* nodejs/declarationParser.js                                              *)

\* Reading a property of any value but undefined and null (which throw a
\* TypeError): a string has its characters under index keys, a number or a
\* boolean has no own property.
Get(h, v, key) ==
    IF v.t = "ref" THEN GetProp(h, v, key)
    ELSE IF v.t = "string" /\ \E i \in 0..(Len(v.s) - 1) : IdxKey(i) = key
    THEN Str(SubSeq(v.s, (CHOOSE i \in 0..(Len(v.s) - 1) : IdxKey(i) = key) + 1,
                         (CHOOSE i \in 0..(Len(v.s) - 1) : IdxKey(i) = key) + 1))
    ELSE Undef

\* Object.keys of any value but undefined and null
KeysOfValue(h, v) ==
    IF v.t = "ref" THEN KeysOf(h, v)
    ELSE IF v.t = "string" THEN [i \in 1..Len(v.s) |-> IdxKey(i - 1)]
    ELSE <<>>

\* The property key a value is converted to when it is used as one
\* (parsed[containerType], bucket[propertyClass]).
RECURSIVE ToKey(_, _)
RECURSIVE JoinKeys(_, _, _)
JoinKeys(h, e, i) ==
    IF i > Len(e) THEN ""
    ELSE (IF i > 1 THEN "," ELSE "")
         \o (IF e[i].val.t \in {"undefined", "null", "hole"} THEN "" ELSE ToKey(h, e[i].val))
         \o JoinKeys(h, e, i + 1)

ToKey(h, v) ==
    CASE v.t = "string" -> v.s
      [] v.t = "number" -> ToString(v.r)
      [] v.t = "boolean" -> IF v.r = 1 THEN "true" ELSE "false"
      [] v.t = "ref" -> IF h[v.r].k = "arr" THEN JoinKeys(h, h[v.r].e, 1) ELSE "[object Object]"
      [] OTHER -> v.t

\* constructor(declaration): this.declaration = {}; Object.assign(this.declaration, declaration)
NewDeclarationParser(h, decl) ==
    LET n == NewNode(h, "obj")
    IN  [h |-> ObjectAssign(n.h, n.v, decl), v |-> n.v]

KEYS_TO_IGNORE == <<"schemaVersion", "class">>

isKeyOfInterest(key) == IndexOf(KEYS_TO_IGNORE, key, 1) = -1

\* getTenants(declaration): the keys whose value has class 'Tenant'; reading
\* .class of a null member throws
RECURSIVE getTenantsFrom(_, _, _, _, _)
getTenantsFrom(h, decl, keys, i, acc) ==
    IF i > Len(keys) THEN [threw |-> FALSE, tenants |-> acc]
    ELSE LET possibleTenant == keys[i]
             val == GetProp(h, decl, possibleTenant)
         IN  IF ~isKeyOfInterest(possibleTenant)
             THEN getTenantsFrom(h, decl, keys, i + 1, acc)
             ELSE IF val.t \in {"undefined", "null"}
             THEN [threw |-> TRUE, tenants |-> acc]
             ELSE IF Truthy(Get(h, val, "class")) /\ Get(h, val, "class") = Str("Tenant")
             THEN getTenantsFrom(h, decl, keys, i + 1, Append(acc, possibleTenant))
             ELSE getTenantsFrom(h, decl, keys, i + 1, acc)

getTenants(h, decl) == getTenantsFrom(h, decl, KeysOf(h, decl), 1, <<>>)

\* getKeysOfInterest(declaration)
getKeysOfInterest(h, decl) == SelectSeq(KeysOfValue(h, decl), isKeyOfInterest)

\* FullName without the exception for System: always qualified.
FullNameQualified(containerType, containerName, key) == containerName \o "_" \o key

\* FullName without the container's name: always the raw key.
FullNameRaw(containerType, containerName, key) == key

\* const fullName = containerType === 'System' ? key : `${containerName}_${key}`
FullName(containerType, containerName, key) ==
    IF containerType = Str("System") THEN key ELSE containerName \o "_" \o key

\* DeleteClass left out: the discriminator stays on the property.
DeleteClassSkipped(h, property) == h

\* delete property.class
DeleteClass(h, property) == DelProp(h, property, "class")

\* the body of `Object.keys(container).forEach` for one key: st is the heap
\* and whether a TypeError was thrown; bag is parsed[containerType][tenantName]
ParseProperty(st, bag, containerType, containerName, container, key) ==
    IF st.threw \/ ~isKeyOfInterest(key) THEN st
    ELSE LET h == st.h
             property == Get(h, container, key)
             fullName == FullName(containerType, containerName, key)
         IN  IF TypeOf(property) = "object" /\ property.t = "null"
             THEN [h |-> h, threw |-> TRUE]
             ELSE IF TypeOf(property) = "object" /\ Truthy(GetProp(h, property, "class"))
             THEN LET propertyClass == ToKey(h, GetProp(h, property, "class"))
                      h1 == DeleteClass(h, property)
                      b == NewNode(h1, "obj")
                      h2 == IF ~Truthy(GetProp(h1, bag, propertyClass))
                            THEN SetProp(b.h, bag, propertyClass, b.v)
                            ELSE h1
                      bucket == GetProp(h2, bag, propertyClass)
                      n == NewNode(h2, "obj")
                  IN  IF bucket.t # "ref"
                      THEN [h |-> h2, threw |-> TRUE]
                      ELSE [h |-> ObjectAssign(SetProp(n.h, bucket, fullName, n.v), n.v, property),
                            threw |-> FALSE]
             ELSE [h |-> SetProp(h, bag, fullName, property), threw |-> FALSE]

RECURSIVE ParseProperties(_, _, _, _, _, _, _)
ParseProperties(st, bag, containerType, containerName, container, keys, i) ==
    IF i > Len(keys) THEN st
    ELSE ParseProperties(ParseProperty(st, bag, containerType, containerName, container, keys[i]),
                         bag, containerType, containerName, container, keys, i + 1)

\* the body of `containers.forEach` for one container of a tenant
ParseContainer(st, parsed, tenantName, tenant, containerName) ==
    IF st.threw THEN st
    ELSE LET h == st.h
             container == GetProp(h, tenant, containerName)
         IN  IF container.t \in {"undefined", "null"} THEN [h |-> h, threw |-> TRUE]
             ELSE LET containerType == Get(h, container, "class")
                      typeKey == ToKey(h, containerType)
                      d == NewNode(h, "obj")
                      h1 == IF ~Truthy(GetProp(h, parsed, typeKey))
                            THEN SetProp(d.h, parsed, typeKey, d.v)
                            ELSE h
                      domain == GetProp(h1, parsed, typeKey)
                      t == NewNode(h1, "obj")
                      h2 == IF ~Truthy(GetProp(h1, domain, tenantName))
                            THEN SetProp(t.h, domain, tenantName, t.v)
                            ELSE h1
                      bag == GetProp(h2, domain, tenantName)
                  IN  ParseProperties([h |-> h2, threw |-> FALSE], bag, containerType,
                                      containerName, container, KeysOfValue(h2, container), 1)

RECURSIVE ParseContainers(_, _, _, _, _, _)
ParseContainers(st, parsed, tenantName, tenant, containers, i) ==
    IF i > Len(containers) THEN st
    ELSE ParseContainers(ParseContainer(st, parsed, tenantName, tenant, containers[i]),
                         parsed, tenantName, tenant, containers, i + 1)

\* the body of `tenants.forEach` for one tenant
ParseTenant(st, parsed, decl, tenantName) ==
    IF st.threw THEN st
    ELSE LET tenant == GetProp(st.h, decl, tenantName)
         IN  ParseContainers(st, parsed, tenantName, tenant, getKeysOfInterest(st.h, tenant), 1)

RECURSIVE ParseTenants(_, _, _, _, _)
ParseTenants(st, parsed, decl, tenants, i) ==
    IF i > Len(tenants) THEN st
    ELSE ParseTenants(ParseTenant(st, parsed, decl, tenants[i]), parsed, decl, tenants, i + 1)

\* parse(): the heap after the call and its outcome: the tenants and the
\* parsed declaration it returns, or threw when the error caught at the end
\* is rethrown (nothing is returned then)
Parse(h0, decl) ==
    LET p == NewNode(h0, "obj")
        gt == getTenants(p.h, decl)
        st == ParseTenants([h |-> p.h, threw |-> FALSE], p.v, decl, gt.tenants, 1)
    IN  IF gt.threw THEN [h |-> p.h, threw |-> TRUE, tenants |-> <<>>, parsed |-> Undef]
        ELSE IF st.threw THEN [h |-> st.h, threw |-> TRUE, tenants |-> <<>>, parsed |-> Undef]
        ELSE [h |-> st.h, threw |-> FALSE, tenants |-> gt.tenants, parsed |-> p.v]

-----------------------------------------------------------------------------
(* The declarations the normalizer is checked on.                           *)

\* the number of parse() calls a caller makes on one declaration object
MaxParses == 2

TypedDNS == LObj(<<Entry("class", LStr("DNS")), Entry("p", LStr("a"))>>)
TypedDNS2 == LObj(<<Entry("class", LStr("DNS")), Entry("p", LStr("b"))>>)
\* a typed sub-instance that holds a typed object of its own (a VLAN's interface)
TypedVLAN ==
    LObj(<<Entry("class", LStr("VLAN")), Entry("tag", LNum(1)),
           Entry("1.1", LObj(<<Entry("class", LStr("Interface")), Entry("tagged", LBool(TRUE))>>))>>)
\* an object whose discriminator is empty
EmptyClass == LObj(<<Entry("class", LStr("")), Entry("p", LStr("a"))>>)

PropertyValues ==
    {LAbsent, LStr("a"), TypedDNS, TypedVLAN, PA, LArr(<<LStr("a")>>), EmptyClass, LNull}

ContainerOf(class, x, y) ==
    LObj(Members(<<Entry("class", class), Entry("x", x), Entry("y", y)>>))

\* the values of the first container: every domain, every property, and the
\* values that are no object
ContainersA ==
    {ContainerOf(class, x, y) :
        class \in {LStr("System"), LStr("Network"), LAbsent},
        x \in PropertyValues,
        y \in {LAbsent, LNum(1), TypedDNS2}}
    \cup {LAbsent, LStr("a"), LNum(1), LNull}

ContainersB ==
    {LAbsent,
     ContainerOf(LStr("System"), TypedDNS2, LAbsent),
     ContainerOf(LStr("Network"), TypedDNS2, LAbsent),
     ContainerOf(LStr("Network"), LStr("b"), LAbsent),
     ContainerOf(LStr("Analytics"), TypedVLAN, LAbsent)}

TenantOf(a, b) ==
    LObj(Members(<<Entry("class", LStr("Tenant")), Entry("A", a), Entry("B", b)>>))

DeclarationOf(common, tenant1) ==
    LObj(Members(<<Entry("schemaVersion", LStr("1.0.0")), Entry("class", LStr("Device")),
                   Entry("Common", common), Entry("Tenant1", tenant1)>>))

Declarations ==
    {DeclarationOf(TenantOf(a, b), LAbsent) : a \in ContainersA, b \in ContainersB}
    \cup {DeclarationOf(TenantOf(a, LAbsent), t) :
            a \in {LAbsent, ContainerOf(LStr("Network"), TypedDNS, LNum(1))},
            t \in {TenantOf(ContainerOf(LStr("Network"), TypedDNS, LAbsent), LAbsent),
                   LObj(<<Entry("class", LStr("Other")), Entry("A", PA)>>),
                   LStr("a"), LNull}}

-----------------------------------------------------------------------------
(* The normalizer's driver: a caller holds a declaration object, builds     *)
(* parsers over it and calls parse() on them.                               *)

NoParser == [declaration |-> Undef, calls |-> 0]

ParseInit ==
    /\ declText \in Declarations
    /\ LET d == ParseJSON(<<>>, declText)
       IN  /\ heap = d.h
           /\ userDeclaration = d.v
    /\ parser = NoParser
    /\ parses = <<>>
    /\ pc = "parse"
    /\ desired = LAbsent
    /\ current = LAbsent
    /\ toDeclaration = Undef
    /\ fromDeclaration = Undef
    /\ run1 = NoRun
    /\ run2 = NoRun
    /\ NoFetch

\* new DeclarationParser(userDeclaration): the first parser, or a new one
\* once the newest has parsed
Construct ==
    /\ pc = "parse"
    /\ Len(parses) < MaxParses
    /\ parser = NoParser \/ parser.calls > 0
    /\ \E c \in {NewDeclarationParser(heap, userDeclaration)} :
           /\ heap' = c.h
           /\ parser' = [declaration |-> c.v, calls |-> 0]
    /\ UNCHANGED <<pc, declText, userDeclaration, parses, diffVars, fetchVars, systemVars>>

\* parser.parse()
CallParse ==
    /\ pc = "parse"
    /\ parser # NoParser
    /\ Len(parses) < MaxParses
    /\ \E r \in {Parse(heap, parser.declaration)} :
           /\ heap' = r.h
           /\ parses' = Append(parses,
                  [threw |-> r.threw, tenants |-> r.tenants, parsed |-> r.parsed,
                   text |-> StringifyJSON(r.h, r.parsed),
                   before |-> StringifyJSON(heap, userDeclaration),
                   after |-> StringifyJSON(r.h, userDeclaration),
                   fresh |-> parser.calls = 0])
    /\ parser' = [parser EXCEPT !.calls = @ + 1]
    /\ UNCHANGED <<pc, declText, userDeclaration, diffVars, fetchVars, systemVars>>

ParseNext == Construct \/ CallParse

ParseSpec == ParseInit /\ [][ParseNext]_vars

-----------------------------------------------------------------------------
(* ConfigManager (lib/configManager.js): get(declaration, state, doState)   *)
(* reads the device's configuration through bigIp, reshapes every read      *)
(* result as its config item describes, and keeps the first-observed        *)
(* configuration of the device in doState.                                  *)

\* String.prototype.startsWith / endsWith
StartsWith(s, prefix) == Len(s) >= Len(prefix) /\ SubSeq(s, 1, Len(prefix)) = prefix
EndsWith(s, suffix) == Len(s) >= Len(suffix) /\ SubSeq(s, Len(s) - Len(suffix) + 1, Len(s)) = suffix

\* String.prototype.indexOf(sub): 0-based position of the first occurrence, -1 when none
StrIndexOf(s, sub) ==
    IF \E i \in 1..(Len(s) - Len(sub) + 1) : SubSeq(s, i, i + Len(sub) - 1) = sub
    THEN (CHOOSE i \in 1..(Len(s) - Len(sub) + 1) :
             /\ SubSeq(s, i, i + Len(sub) - 1) = sub
             /\ \A j \in 1..(i - 1) : SubSeq(s, j, j + Len(sub) - 1) # sub) - 1
    ELSE -1

\* String.prototype.substring(n)
Substring(s, n) == SubSeq(s, n + 1, Len(s))

\* String.prototype.split(sep), sep not empty: the pieces between the separators
RECURSIVE StrSplit(_, _)
StrSplit(s, sep) ==
    IF StrIndexOf(s, sep) = -1 THEN <<s>>
    ELSE <<SubSeq(s, 1, StrIndexOf(s, sep))>> \o StrSplit(Substring(s, StrIndexOf(s, sep) + Len(sep)), sep)

\* String.prototype.replace(/token/, val): the first occurrence is replaced
StrReplace(s, token, val) ==
    IF StrIndexOf(s, token) = -1 THEN s
    ELSE SubSeq(s, 1, StrIndexOf(s, token)) \o val \o Substring(s, StrIndexOf(s, token) + Len(token))

\* Array.prototype.join(sep) on a sequence of strings
RECURSIVE StrJoin(_, _)
StrJoin(seq, sep) ==
    IF seq = <<>> THEN ""
    ELSE IF Len(seq) = 1 THEN seq[1]
    ELSE seq[1] \o sep \o StrJoin(Tail(seq), sep)

\* The outcome of a step that may throw: the heap it leaves, its value, and
\* whether a TypeError left it.
Ok(h, v) == [h |-> h, v |-> v, threw |-> FALSE]
Threw(h) == [h |-> h, v |-> Undef, threw |-> TRUE]

\* v is undefined or null: reading a property of it throws a TypeError
Nullish(v) == v.t \in {"undefined", "null"}

\* the elements of an array in index order, as forEach visits them
Elements(h, arr) == [i \in 1..Len(OwnEntries(h, arr)) |-> OwnEntries(h, arr)[i].val]

\* mapTruth(item, property)
mapTruth(h, item, property) ==
    IF ~Truthy(Get(h, item, ToKey(h, Get(h, property, "id")))) THEN Bool(FALSE)
    ELSE Bool(Get(h, item, ToKey(h, Get(h, property, "id"))) = Get(h, property, "truth"))

\* removeUnusedKeys(item, nameless): a copy of item less kind, selfLink, the
\* keys ending in Reference and, when nameless, name
removeUnusedKeys(h, item, nameless) ==
    LET keysToRemove == IF Truthy(nameless) THEN <<"kind", "selfLink", "name">>
                        ELSE <<"kind", "selfLink">>
        Filtered(n) ==
            [h |-> [ObjectAssign(n.h, n.v, item) EXCEPT ![n.v.r].e =
                       SelectSeq(@, LAMBDA en : /\ ~EndsWith(en.key, "Reference")
                                                /\ IndexOf(keysToRemove, en.key, 1) = -1)],
             v |-> n.v]
    IN  Filtered(NewNode(h, "obj"))

\* getPropertiesOfInterest(initialProperties): the ids of the properties, and
\* 'name' when it is not among them
getPropertiesOfInterest(h, initialProperties) ==
    LET properties == IF Truthy(initialProperties) THEN Elements(h, initialProperties) ELSE <<>>
        propertyNames == [i \in 1..Len(properties) |-> Get(h, properties[i], "id")]
    IN  IF \E i \in 1..Len(propertyNames) : propertyNames[i] = Str("name")
        THEN propertyNames
        ELSE Append(propertyNames, Str("name"))

\* the reduce of mapNewId over the parts of a dotted newId, from part idx on
RECURSIVE mapNewIdParts(_, _, _, _, _)
mapNewIdParts(h, acc, parts, idx, val) ==
    IF idx = Len(parts)
    THEN IF acc.t = "ref" THEN Ok(SetProp(h, acc, parts[idx], val), acc) ELSE Threw(h)
    ELSE IF Truthy(Get(h, acc, parts[idx]))
    THEN mapNewIdParts(h, Get(h, acc, parts[idx]), parts, idx + 1, val)
    ELSE IF acc.t # "ref" THEN Threw(h)
    ELSE LET Into(n) == mapNewIdParts(SetProp(n.h, acc, parts[idx], n.v), n.v, parts, idx + 1, val)
         IN  Into(NewNode(h, "obj"))

\* mapNewId(mappedItem, id, newId)
mapNewId(h, mappedItem, id, newId) ==
    LET Deleted(r) == IF r.threw THEN r ELSE Ok(DelProp(r.h, mappedItem, id), mappedItem)
    IN  IF newId.t \in {"null", "number", "boolean"} \/ IsPlainObject(h, newId) THEN Threw(h)
        ELSE IF newId.t = "string" /\ StrIndexOf(newId.s, ".") > 0
        THEN Deleted(mapNewIdParts(h, mappedItem, StrSplit(newId.s, "."), 1,
                                   GetProp(h, mappedItem, id)))
        ELSE Deleted(Ok(SetProp(h, mappedItem, ToKey(h, newId), GetProp(h, mappedItem, id)),
                        mappedItem))

\* property.transform.forEach of mapProperties, from transform i on: the
\* sub-properties of the original value are lifted into mappedItem
RECURSIVE mapTransform(_, _, _, _, _)
mapTransform(h, mappedItem, orig, transform, i) ==
    IF i > Len(transform) THEN Ok(h, mappedItem)
    ELSE IF Nullish(transform[i]) THEN Threw(h)
    ELSE LET trans == transform[i]
             key == ToKey(h, Get(h, trans, "id"))
             Lift(propertyVal) ==
                 mapTransform(SetProp(h, mappedItem,
                                  IF Truthy(Get(h, trans, "newId"))
                                  THEN ToKey(h, Get(h, trans, "newId")) ELSE key,
                                  propertyVal),
                              mappedItem, orig, transform, i + 1)
         IN  IF Truthy(GetProp(h, orig, key)) THEN Lift(GetProp(h, orig, key))
             ELSE IF Nullish(GetProp(h, orig, "0")) THEN Threw(h)
             ELSE Lift(Get(h, GetProp(h, orig, "0"), key))

\* the body of this.configItems[index].properties.forEach of mapProperties
mapProperty(h, mappedItem, property) ==
    LET id == ToKey(h, Get(h, property, "id"))
        \* map truth/falsehood to booleans
        h1 == IF /\ Get(h, property, "truth") # Undef
                 /\ (GetProp(h, mappedItem, id) # Undef
                        \/ ~Truthy(Get(h, property, "skipWhenOmitted")))
              THEN SetProp(h, mappedItem, id, mapTruth(h, mappedItem, property))
              ELSE h
        NewId(r) ==
            IF r.threw THEN r
            ELSE IF Get(h, property, "newId") # Undef
            THEN mapNewId(r.h, mappedItem, id, Get(h, property, "newId"))
            ELSE r
        Transformed(hs) ==
            IF ~Truthy(Get(h, property, "transform")) THEN Ok(hs, mappedItem)
            ELSE IF ~IsArray(hs, Get(h, property, "transform")) THEN Threw(hs)
            ELSE LET Orig(n) ==
                         mapTransform(
                             DelProp(ObjectAssign(n.h, n.v, GetProp(hs, mappedItem, id)),
                                     mappedItem, id),
                             mappedItem, n.v, Elements(hs, Get(h, property, "transform")), 1)
                 IN  Orig(NewNode(hs, "obj"))
        Stripped(val) ==
            IF val.t = "string" /\ StartsWith(val.s, "/Common/")
            THEN SetProp(h1, mappedItem, id, Str(Substring(val.s, Len("/Common/"))))
            ELSE h1
    IN  IF GetProp(h1, mappedItem, id) # Undef
        THEN NewId(Transformed(Stripped(GetProp(h1, mappedItem, id))))
        ELSE IF Get(h, property, "defaultWhenOmitted") # Undef
        THEN NewId(Ok(SetProp(h1, mappedItem, id, Get(h, property, "defaultWhenOmitted")),
                      mappedItem))
        ELSE Ok(h1, mappedItem)

RECURSIVE mapEachProperty(_, _, _, _)
mapEachProperty(h, mappedItem, properties, i) ==
    IF i > Len(properties) THEN Ok(h, mappedItem)
    ELSE IF Nullish(properties[i]) THEN Threw(h)
    ELSE LET Rest(r) == IF r.threw THEN r ELSE mapEachProperty(r.h, mappedItem, properties, i + 1)
         IN  Rest(mapProperty(h, mappedItem, properties[i]))

\* mapProperties(item, index), configItem being this.configItems[index]
mapProperties(h, item, configItem) ==
    LET properties == Get(h, configItem, "properties")
        Mapped(n) ==
            IF Truthy(Get(h, configItem, "singleValue"))
            THEN IF Nullish(properties) \/ Nullish(Get(h, properties, "0")) THEN Threw(n.h)
                 ELSE Ok(n.h, GetProp(n.h, n.v, ToKey(h, Get(h, Get(h, properties, "0"), "id"))))
            ELSE IF ~IsArray(h, properties) THEN Threw(n.h)
            ELSE mapEachProperty(n.h, n.v, Elements(h, properties), 1)
        Assigned(n) == [h |-> ObjectAssign(n.h, n.v, item), v |-> n.v]
    IN  Mapped(Assigned(NewNode(h, "obj")))

\* the reduce of mapSchemaMerge over the path, from part i on: the object the
\* last key is set on, missing objects being created on the way
RECURSIVE mergePointer(_, _, _, _)
mergePointer(h, acc, pathProps, i) ==
    IF i > Len(pathProps) THEN Ok(h, acc)
    ELSE IF Nullish(acc) THEN Threw(h)
    ELSE IF Get(h, acc, pathProps[i]) = Undef
    THEN IF acc.t # "ref" THEN Threw(h)
         ELSE LET Into(n) == mergePointer(SetProp(n.h, acc, pathProps[i], n.v), n.v, pathProps, i + 1)
              IN  Into(NewNode(h, "obj"))
    ELSE mergePointer(h, Get(h, acc, pathProps[i]), pathProps, i + 1)

\* mapSchemaMerge, were the value always assigned at the path, whatever the
\* action
mapSchemaMergeReplacing(h, obj, value, opts) ==
    LET path == Get(h, opts, "path")
        keys == [i \in 1..Len(Elements(h, path)) |-> ToKey(h, Elements(h, path)[i])]
        key == IF keys = <<>> THEN "undefined" ELSE keys[Len(keys)]
        Assign(p) ==
            IF p.threw THEN p
            ELSE IF Nullish(p.v) \/ p.v.t # "ref" THEN Threw(p.h)
            ELSE Ok(SetProp(p.h, p.v, key, value), obj)
    IN  IF value.t = "null" THEN Threw(h)
        ELSE IF /\ Truthy(Get(h, opts, "skipWhenOmitted"))
                /\ (value = Undef \/ KeysOfValue(h, value) = <<>>)
        THEN Ok(h, obj)
        ELSE IF ~IsArray(h, path) THEN Threw(h)
        ELSE Assign(mergePointer(h, obj, SubSeq(keys, 1, Len(keys) - 1), 1))

\* mapSchemaMerge(obj, value, opts)
mapSchemaMerge(h, obj, value, opts) ==
    LET path == Get(h, opts, "path")
        keys == [i \in 1..Len(Elements(h, path)) |-> ToKey(h, Elements(h, path)[i])]
        key == IF keys = <<>> THEN "undefined" ELSE keys[Len(keys)]
        Assign(p) ==
            IF p.threw THEN p
            ELSE IF Nullish(p.v) \/ p.v.t # "ref" THEN Threw(p.h)
            ELSE IF Get(h, opts, "action") = Str("add")
            THEN IF GetProp(p.h, p.v, key) = Undef
                 THEN LET Fresh(n) == Ok(ObjectAssign(SetProp(n.h, p.v, key, n.v), n.v, value), obj)
                      IN  Fresh(NewNode(p.h, "obj"))
                 ELSE IF Nullish(GetProp(p.h, p.v, key)) THEN Threw(p.h)
                 ELSE IF GetProp(p.h, p.v, key).t = "ref"
                 THEN Ok(ObjectAssign(p.h, GetProp(p.h, p.v, key), value), obj)
                 \* a primitive is boxed: modelled as the object of the assigned properties
                 ELSE LET Boxed(n) == Ok(ObjectAssign(SetProp(n.h, p.v, key, n.v), n.v, value), obj)
                      IN  Boxed(NewNode(p.h, "obj"))
            ELSE Ok(SetProp(p.h, p.v, key, value), obj)
    IN  IF value.t = "null" THEN Threw(h)
        ELSE IF /\ Truthy(Get(h, opts, "skipWhenOmitted"))
                /\ (value = Undef \/ KeysOfValue(h, value) = <<>>)
        THEN Ok(h, obj)
        ELSE IF ~IsArray(h, path) THEN Threw(h)
        ELSE Assign(mergePointer(h, obj, SubSeq(keys, 1, Len(keys) - 1), 1))

\* patchSelfIp(selfIp)
patchSelfIp(h, selfIp) ==
    LET Patched(n) ==
            LET hp == ObjectAssign(n.h, n.v, selfIp)
                allowService == GetProp(hp, n.v, "allowService")
            IN  IF ~Truthy(allowService)
                THEN [h |-> SetProp(hp, n.v, "allowService", Str("none")), v |-> n.v]
                ELSE IF /\ IsArray(hp, allowService)
                        /\ Len(hp[allowService.r].e) = 1
                        /\ GetProp(hp, allowService, "0") = Str("default")
                THEN [h |-> SetProp(hp, n.v, "allowService", Str("default")), v |-> n.v]
                ELSE [h |-> hp, v |-> n.v]
    IN  Patched(NewNode(h, "obj"))

\* sharedConstants.RADIUS: the names of the two radius servers
RADIUS_SERVER_PREFIX == "system_auth_name"
RADIUS_PRIMARY_SERVER == "system_auth_name1"
RADIUS_SECONDARY_SERVER == "system_auth_name2"

\* patchAuth(schemaMerge, authClass, authItem)
patchAuth(h, schemaMerge, authClass, authItem) ==
    LET name == Get(h, authItem, "name")
        type == Get(h, authItem, "type")
        Parent(n) ==
            Ok(DelProp(SetProp(ObjectAssign(n.h, n.v, authItem), n.v, "enabledSourceType",
                               IF type = Str("active-directory") THEN Str("activeDirectory")
                               ELSE type),
                       n.v, "type"),
               n.v)
        Server(copy, n, key) ==
            mapSchemaMerge(DelProp(SetProp(n.h, n.v, key, authItem), authItem, "name"),
                           copy.v, n.v, schemaMerge)
        Sub(copy) ==
            IF Truthy(name) /\ name.t = "string" /\ StrIndexOf(name.s, RADIUS_SERVER_PREFIX) > -1
            THEN IF name.s = RADIUS_PRIMARY_SERVER
                 THEN Server(copy, NewNode(copy.h, "obj"), "primary")
                 ELSE IF name.s = RADIUS_SECONDARY_SERVER
                 THEN Server(copy, NewNode(copy.h, "obj"), "secondary")
                 ELSE mapSchemaMerge(copy.h, copy.v, Undef, schemaMerge)
            ELSE IF Truthy(name) /\ name.t # "string" /\ ~IsArray(h, name) THEN Threw(copy.h)
            ELSE LET Item(n) == mapSchemaMerge(ObjectAssign(n.h, n.v, authItem), copy.v, n.v,
                                               schemaMerge)
                 IN  Item(NewNode(copy.h, "obj"))
        Copy(n) == [h |-> ObjectAssign(n.h, n.v, authClass), v |-> n.v]
    IN  IF Nullish(authItem) THEN Threw(h)
        ELSE IF ~Truthy(schemaMerge) THEN Parent(NewNode(h, "obj"))
        ELSE Sub(Copy(NewNode(h, "obj")))

\* new RegExp(pattern).test(text) for the patterns of the ignore lists: a
\* literal text, anchored by a leading ^ and a trailing $ or not
RegExpTest(pattern, text) ==
    LET head == StartsWith(pattern, "^")
        tail == EndsWith(pattern, "$")
        body == SubSeq(pattern, IF head THEN 2 ELSE 1,
                       IF tail THEN Len(pattern) - 1 ELSE Len(pattern))
    IN  IF head /\ tail THEN text = body
        ELSE IF body = "" THEN TRUE
        ELSE IF head THEN StartsWith(text, body)
        ELSE IF tail THEN EndsWith(text, body)
        ELSE StrIndexOf(text, body) > -1

\* the test of ignoreList.find of shouldIgnore for one entry of the list
ignoreMatches(h, item, ignoreInfo) ==
    LET property == IF KeysOfValue(h, ignoreInfo) = <<>> THEN "undefined"
                    ELSE KeysOfValue(h, ignoreInfo)[1]
    IN  /\ Truthy(Get(h, item, property))
        /\ RegExpTest(IF Get(h, ignoreInfo, property) = Undef THEN ""
                      ELSE ToKey(h, Get(h, ignoreInfo, property)),
                      ToKey(h, Get(h, item, property)))

\* shouldIgnore(item, ignoreList): v is the answer
shouldIgnore(h, item, ignoreList) ==
    IF ~Truthy(ignoreList) THEN Ok(h, Bool(FALSE))
    ELSE IF ~IsArray(h, ignoreList) THEN Threw(h)
    ELSE IF Elements(h, ignoreList) = <<>> THEN Ok(h, Bool(FALSE))
    ELSE IF Nullish(item) \/ \E i \in 1..Len(Elements(h, ignoreList)) : Nullish(Elements(h, ignoreList)[i])
    THEN Threw(h)
    ELSE Ok(h, Bool(\E i \in 1..Len(Elements(h, ignoreList)) :
                        ignoreMatches(h, item, Elements(h, ignoreList)[i])))

\* querystring.escape / unescape of one character, for the characters that
\* paths, property names and queries are written with
QsEscapeChar(c) ==
    CASE c = " " -> "%20"
      [] c = "$" -> "%24"
      [] c = "," -> "%2C"
      [] c = "/" -> "%2F"
      [] c = ":" -> "%3A"
      [] c = "=" -> "%3D"
      [] c = "&" -> "%26"
      [] c = "?" -> "%3F"
      [] OTHER -> c

RECURSIVE QsEscape(_)
QsEscape(s) ==
    IF s = "" THEN "" ELSE QsEscapeChar(SubSeq(s, 1, 1)) \o QsEscape(Substring(s, 1))

RECURSIVE QsUnescape(_)
QsUnescape(s) ==
    IF s = "" THEN ""
    ELSE IF /\ Len(s) >= 3
            /\ \E c \in {" ", "$", ",", "/", ":", "=", "&", "?"} : QsEscapeChar(c) = SubSeq(s, 1, 3)
    THEN (CHOOSE c \in {" ", "$", ",", "/", ":", "=", "&", "?"} : QsEscapeChar(c) = SubSeq(s, 1, 3))
         \o QsUnescape(Substring(s, 3))
    ELSE SubSeq(s, 1, 1) \o QsUnescape(Substring(s, 1))

\* querystring.stringify(query), query being key/value pairs in insertion order
QsStringify(query) ==
    StrJoin([i \in 1..Len(query) |-> QsEscape(query[i].key) \o "=" \o QsEscape(query[i].val)], "&")

\* querystring.parse(text): the key/value pairs of a query, keys being distinct
QsParse(text) ==
    IF text = "" THEN <<>>
    ELSE [i \in 1..Len(StrSplit(text, "&")) |->
            LET pair == StrSplit(text, "&")[i]
                eq == StrIndexOf(pair, "=")
            IN  IF eq = -1 THEN [key |-> QsUnescape(pair), val |-> ""]
                ELSE [key |-> QsUnescape(SubSeq(pair, 1, eq)),
                      val |-> QsUnescape(Substring(pair, eq + 1))]]

\* query.$select = value
QsSet(query, key, val) ==
    IF \E i \in 1..Len(query) : query[i].key = key
    THEN [i \in 1..Len(query) |-> IF query[i].key = key THEN [key |-> key, val |-> val] ELSE query[i]]
    ELSE Append(query, [key |-> key, val |-> val])

\* url.parse(link): pathname and query of scheme://host/path?query or /path?query
UrlParse(link) ==
    LET afterScheme == IF StrIndexOf(link, "://") = -1 THEN link
                       ELSE Substring(link, StrIndexOf(link, "://") + 3)
        fromPath == IF StrIndexOf(link, "://") = -1 THEN link
                    ELSE IF StrIndexOf(afterScheme, "/") = -1 THEN "/"
                    ELSE Substring(afterScheme, StrIndexOf(afterScheme, "/"))
        q == StrIndexOf(fromPath, "?")
    IN  [pathname |-> IF q = -1 THEN fromPath ELSE SubSeq(fromPath, 1, q),
         query |-> IF q = -1 THEN "" ELSE Substring(fromPath, q + 1)]

\* the $select of a query: the names of getPropertiesOfInterest joined by commas
SelectOf(h, names) == JoinKeys(h, [i \in 1..Len(names) |-> Entry(IdxKey(i - 1), names[i])], 1)

\* the path that getReferencedPaths reads for a link
ReferencePath(h, link, refProperties) ==
    LET parsed == UrlParse(link)
        path == parsed.pathname \o "?"
                \o QsStringify(QsSet(QsParse(parsed.query), "$select",
                                     SelectOf(h, getPropertiesOfInterest(h, refProperties))))
    IN  IF StartsWith(path, "/mgmt") THEN Substring(path, Len("/mgmt")) ELSE path

\* getReferencedPaths(item, index, referencePromises, referenceInfo), from
\* key i of item on: v is the reads to issue, each with its referenceInfo
RECURSIVE getReferencedPaths(_, _, _, _, _, _)
getReferencedPaths(h, item, configItem, keys, i, acc) ==
    IF i > Len(keys) THEN [threw |-> FALSE, refs |-> acc]
    ELSE LET property == keys[i]
             references == Get(h, configItem, "references")
         IN  IF ~(Truthy(references) /\ Truthy(Get(h, references, property)))
             THEN getReferencedPaths(h, item, configItem, keys, i + 1, acc)
             ELSE IF Nullish(Get(h, item, property)) THEN [threw |-> TRUE, refs |-> acc]
             ELSE IF ~Truthy(Get(h, Get(h, item, property), "link"))
             THEN getReferencedPaths(h, item, configItem, keys, i + 1, acc)
             ELSE IF Get(h, Get(h, item, property), "link").t # "string"
                     \/ ~(EndsWith(property, "Reference") /\ Len(property) > Len("Reference"))
             THEN [threw |-> TRUE, refs |-> acc]
             ELSE getReferencedPaths(h, item, configItem, keys, i + 1,
                      Append(acc,
                          [path |-> ReferencePath(h, Get(h, Get(h, item, property), "link").s,
                                                  Get(h, references, property)),
                           link |-> Get(h, Get(h, item, property), "link").s,
                           property |-> SubSeq(property, 1, Len(property) - Len("Reference")),
                           schemaClass |-> Get(h, configItem, "schemaClass"),
                           name |-> Get(h, item, "name"),
                           properties |-> Get(h, references, property)]))

\* The outcome of a part of the handler of the config item results: the heap,
\* whether it threw, and the reference reads issued so far with their
\* referenceInfo.
Went(h, refs) == [h |-> h, threw |-> FALSE, refs |-> refs]
Failed(h, refs) == [h |-> h, threw |-> TRUE, refs |-> refs]

\* getReferencedPaths.call(this, item, index, referencePromises, referenceInfo)
\* at the end of the handling of an item
ReferencesOf(h, refs, item, configItem) ==
    LET Got(g) == [h |-> h, threw |-> g.threw, refs |-> g.refs]
    IN  IF Nullish(item) THEN Failed(h, refs)
        ELSE Got(getReferencedPaths(h, item, configItem, KeysOfValue(h, item), 1, refs))

\* the name under which an instance is put: item.name without /Common/
ItemName(h, item) ==
    LET itemName == Get(h, item, "name")
    IN  IF itemName.t # "string" THEN ""
        ELSE IF StartsWith(itemName.s, "/Common/") THEN StrSplit(itemName.s, "/Common/")[2]
        ELSE itemName.s

\* The steps of the handling of one item.  r is the outcome so far: the heap,
\* whether the handler threw, and patchedItem.
\* if (schemaClass === 'RemoteAuthRole') patchedItem.name = name
RoleStep(r, h, item, schemaClass) ==
    IF r.threw \/ Get(h, item, "name").t # "string" THEN Threw(r.h)
    ELSE IF schemaClass # Str("RemoteAuthRole") THEN r
    ELSE IF r.v.t # "ref" THEN Threw(r.h)
    ELSE Ok(SetProp(r.h, r.v, "name", Str(ItemName(h, item))), r.v)

\* if (schemaClass === 'SelfIp') patchedItem = patchSelfIp(patchedItem)
SelfIpStep(r, schemaClass) ==
    IF r.threw \/ schemaClass # Str("SelfIp") THEN r ELSE patchSelfIp(r.h, r.v)

\* a db variable that is not of interest is dropped
DbVariablesStep(r, h, item, schemaClass, dbVarsOfInterest) ==
    IF r.threw THEN r
    ELSE IF schemaClass = Str("DbVariables")
            /\ IndexOf(dbVarsOfInterest, Get(h, item, "name").s, 1) = -1
    THEN Ok(r.h, Null)
    ELSE r

\* currentConfig[schemaClass] = patchAuth(schemaMerge, currentConfig[schemaClass],
\* patchedItem); patchedItem = null
AuthClassSet(a, currentConfig, class) ==
    IF a.threw THEN a ELSE Ok(SetProp(a.h, currentConfig, class, a.v), Null)

AuthenticationStep(r, configItem, currentConfig, schemaClass) ==
    IF r.threw \/ schemaClass # Str("Authentication") THEN r
    ELSE AuthClassSet(patchAuth(r.h, Get(r.h, configItem, "schemaMerge"),
                                GetProp(r.h, currentConfig, ToKey(r.h, schemaClass)), r.v),
                      currentConfig, ToKey(r.h, schemaClass))

\* currentConfig[schemaClass][name] = patchedItem, n being the object that
\* becomes currentConfig[schemaClass] when there is none
PutInto(r, n, currentConfig, class, name) ==
    IF ~Truthy(GetProp(r.h, currentConfig, class))
    THEN Ok(SetProp(SetProp(n.h, currentConfig, class, n.v), n.v, name, r.v), r.v)
    ELSE IF GetProp(r.h, currentConfig, class).t # "ref" THEN Threw(r.h)
    ELSE Ok(SetProp(r.h, GetProp(r.h, currentConfig, class), name, r.v), r.v)

\* if (patchedItem) ...
PutStep(r, currentConfig, class, name) ==
    IF r.threw \/ ~Truthy(r.v) THEN r
    ELSE PutInto(r, NewNode(r.h, "obj"), currentConfig, class, name)

\* the references of the item are read once it is handled
ReferencesStep(r, refs, item, configItem) ==
    IF r.threw THEN Failed(r.h, refs) ELSE ReferencesOf(r.h, refs, item, configItem)

\* if (!shouldIgnore(item, ignore)) ...
UnlessIgnored(ignored, h, refs, handled) ==
    IF ignored.threw THEN Failed(h, refs)
    ELSE IF ignored.v = Bool(TRUE) THEN Went(h, refs)
    ELSE handled

\* patchedItem = mapProperties(removeUnusedKeys(item, nameless), index)
PatchedItem(r, configItem) == mapProperties(r.h, r.v, configItem)

\* the body of currentItem.forEach: one instance of an array result
ArrayItem(h, refs, item, configItem, currentConfig, dbVarsOfInterest) ==
    UnlessIgnored(
        shouldIgnore(h, item, Get(h, configItem, "ignore")), h, refs,
        ReferencesStep(
            PutStep(
                AuthenticationStep(
                    DbVariablesStep(
                        SelfIpStep(
                            RoleStep(PatchedItem(removeUnusedKeys(h, item, Get(h, configItem, "nameless")),
                                                 configItem),
                                     h, item, Get(h, configItem, "schemaClass")),
                            Get(h, configItem, "schemaClass")),
                        h, item, Get(h, configItem, "schemaClass"), dbVarsOfInterest),
                    configItem, currentConfig, Get(h, configItem, "schemaClass")),
                currentConfig, ToKey(h, Get(h, configItem, "schemaClass")), ItemName(h, item)),
            refs, item, configItem))

RECURSIVE ArrayItems(_, _, _, _, _, _, _)
ArrayItems(h, refs, items, i, configItem, currentConfig, dbVarsOfInterest) ==
    IF i > Len(items) THEN Went(h, refs)
    ELSE LET Rest(r) == IF r.threw THEN r
                        ELSE ArrayItems(r.h, r.refs, items, i + 1, configItem, currentConfig,
                                        dbVarsOfInterest)
         IN  Rest(ArrayItem(h, refs, items[i], configItem, currentConfig, dbVarsOfInterest))

\* servers.forEach of the SyslogRemoteServer patch, from server i on
RECURSIVE SyslogServers(_, _, _, _)
SyslogServers(h, patchedItem, servers, i) ==
    IF i > Len(servers) THEN Ok(h, patchedItem)
    ELSE LET server == servers[i]
             serverName == Get(h, server, "name")
             Renamed(hh) ==
                 LET Copy(n) == SyslogServers(
                                    SetProp(ObjectAssign(n.h, n.v, server), patchedItem,
                                            ToKey(n.h, Get(n.h, server, "name")), n.v),
                                    patchedItem, servers, i + 1)
                 IN  Copy(NewNode(hh, "obj"))
         IN  IF Nullish(server) \/ serverName.t # "string" THEN Threw(h)
             ELSE IF StrIndexOf(serverName.s, "/Common/") > -1
             THEN IF server.t # "ref" THEN Threw(h)
                  ELSE Renamed(SetProp(h, server, "name",
                                       IF Len(StrSplit(serverName.s, "/Common/")) > 1
                                       THEN Str(StrSplit(serverName.s, "/Common/")[2]) ELSE Undef))
             ELSE Renamed(h)

\* patchedItem = patchAuth(schemaMerge, currentConfig[schemaClass], patchedItem)
AuthenticationItem(r, configItem, currentConfig, schemaClass) ==
    IF r.threw \/ schemaClass # Str("Authentication") THEN r
    ELSE patchAuth(r.h, Get(r.h, configItem, "schemaMerge"),
                   GetProp(r.h, currentConfig, ToKey(r.h, schemaClass)), r.v)

\* delete patchedItem.remoteServers, once the servers are put on patchedItem
SyslogServed(s, patchedItem) ==
    IF s.threw THEN s ELSE Ok(DelProp(s.h, patchedItem, "remoteServers"), patchedItem)

\* if (schemaClass === 'SyslogRemoteServer') ...
SyslogStep(r, schemaClass) ==
    IF r.threw \/ schemaClass # Str("SyslogRemoteServer") THEN r
    ELSE IF Nullish(r.v) THEN Threw(r.h)
    ELSE IF ~Truthy(Get(r.h, r.v, "remoteServers"))
    THEN Ok(IF r.v.t = "ref" THEN DelProp(r.h, r.v, "remoteServers") ELSE r.h, r.v)
    ELSE IF ~IsArray(r.h, Get(r.h, r.v, "remoteServers")) \/ r.v.t # "ref" THEN Threw(r.h)
    ELSE SyslogServed(SyslogServers(r.h, r.v, Elements(r.h, Get(r.h, r.v, "remoteServers")), 1),
                      r.v)

\* currentConfig[schemaClass] = patchedItem
SetStep(r, currentConfig, class) ==
    IF r.threw THEN r ELSE Ok(SetProp(r.h, currentConfig, class, r.v), r.v)

\* the handling of a result that is a single object (not an array)
ObjectItem(h, refs, currentItem, configItem, currentConfig) ==
    UnlessIgnored(
        shouldIgnore(h, currentItem, Get(h, configItem, "ignore")), h, refs,
        ReferencesStep(
            SetStep(
                SyslogStep(
                    AuthenticationItem(
                        PatchedItem(removeUnusedKeys(h, currentItem, Get(h, configItem, "nameless")),
                                    configItem),
                        configItem, currentConfig, Get(h, configItem, "schemaClass")),
                    Get(h, configItem, "schemaClass")),
                currentConfig, ToKey(h, Get(h, configItem, "schemaClass"))),
            refs, currentItem, configItem))

\* the body of results.forEach: the result of the read of one config item
ResultOf(h, refs, currentItem, configItem, currentConfig, dbVarsOfInterest) ==
    LET schemaClass == Get(h, configItem, "schemaClass")
    IN  IF currentItem = Bool(FALSE) THEN Went(h, refs)
        ELSE IF Nullish(configItem) THEN Failed(h, refs)
        ELSE IF ~Truthy(schemaClass)
        THEN IF Nullish(currentItem) THEN Failed(h, refs)
             ELSE Went(ObjectAssign(h, currentConfig, currentItem), refs)
        ELSE IF IsArray(h, currentItem)
        THEN IF Elements(h, currentItem) = <<>> /\ Len(h[currentItem.r].e) = 0
                /\ ~Truthy(GetProp(h, currentConfig, ToKey(h, schemaClass)))
             THEN LET Bag(n) == Went(SetProp(n.h, currentConfig, ToKey(h, schemaClass), n.v), refs)
                  IN  Bag(NewNode(h, "obj"))
             ELSE ArrayItems(h, refs, Elements(h, currentItem), 1, configItem, currentConfig,
                             dbVarsOfInterest)
        ELSE ObjectItem(h, refs, currentItem, configItem, currentConfig)

\* results.forEach((currentItem, index) => ...), from result i on
RECURSIVE Results(_, _, _, _, _, _, _)
Results(h, refs, results, i, configItems, currentConfig, dbVarsOfInterest) ==
    IF i > Len(results) THEN Went(h, refs)
    ELSE LET Rest(r) == IF r.threw THEN r
                        ELSE Results(r.h, r.refs, results, i + 1, configItems, currentConfig,
                                     dbVarsOfInterest)
         IN  Rest(ResultOf(h, refs, results[i], GetProp(h, configItems, IdxKey(i - 1)),
                           currentConfig, dbVarsOfInterest))

\* arr.push(val)
ArrayPush(h, arr, val) == SetIdx(h, arr, Len(h[arr.r].e), val)

\* referenceInfo[index].properties.forEach of the reference handler, from
\* property i on: truth values of a referenced item are mapped to booleans
RECURSIVE ReferenceTruths(_, _, _, _)
ReferenceTruths(h, patchedItem, properties, i) ==
    IF i > Len(properties) THEN Ok(h, patchedItem)
    ELSE IF Nullish(properties[i]) THEN Threw(h)
    ELSE IF Get(h, properties[i], "truth") # Undef
    THEN ReferenceTruths(SetProp(h, patchedItem, ToKey(h, Get(h, properties[i], "id")),
                                 mapTruth(h, patchedItem, properties[i])),
                         patchedItem, properties, i + 1)
    ELSE ReferenceTruths(h, patchedItem, properties, i + 1)

\* referenceResult.forEach of the reference handler, from reference i on
RECURSIVE ReferenceItems(_, _, _, _, _)
ReferenceItems(h, target, references, i, info) ==
    IF i > Len(references) THEN Ok(h, target)
    ELSE IF ~IsArray(h, info.properties) THEN Threw(h)
    ELSE LET Pushed(r) == IF r.threw THEN r
                          ELSE ReferenceItems(ArrayPush(r.h, target, r.v), target, references,
                                              i + 1, info)
             Cleaned(r) == Pushed(ReferenceTruths(r.h, r.v, Elements(h, info.properties), 1))
         IN  Cleaned(removeUnusedKeys(h, references[i], Undef))

\* the body of referencesResults.forEach: the result of one reference read is
\* set on the config item that referenceInfo names
ReferenceResult(h, referenceResult, info, currentConfig) ==
    LET bag == GetProp(h, currentConfig, ToKey(h, info.schemaClass))
        configItem == Get(h, bag, ToKey(h, info.name))
        Spliced(n) ==
            IF ~IsArray(h, referenceResult) THEN Threw(n.h)
            ELSE ReferenceItems(SetProp(n.h, configItem, info.property, n.v), n.v,
                                Elements(h, referenceResult), 1, info)
    IN  IF Nullish(bag) \/ configItem.t # "ref" THEN Threw(h)
        ELSE Spliced(NewNode(h, "arr"))

\* referencesResults.forEach((referenceResult, index) => ...), from result i on
RECURSIVE ReferencesResults(_, _, _, _, _)
ReferencesResults(h, referencesResults, i, referenceInfo, currentConfig) ==
    IF i > Len(referencesResults) THEN Ok(h, currentConfig)
    ELSE LET Rest(r) == IF r.threw THEN r
                        ELSE ReferencesResults(r.h, referencesResults, i + 1, referenceInfo,
                                               currentConfig)
         IN  Rest(ReferenceResult(h, referencesResults[i], referenceInfo[i], currentConfig))

\* doState, the store of original configurations (lib/state.js), keyed by
\* config id: entries in the order they were first set.
\* doState.getOriginalConfigByConfigId(id)
getOriginalConfigByConfigId(store, id) ==
    IF IndexOfKey(store, id, 1) = 0 THEN Undef ELSE store[IndexOfKey(store, id, 1)].val

\* doState.setOriginalConfigByConfigId(id, config): the store keeps the
\* document it is given, or a copy of it when the store copies what it is given
setOriginalConfigByConfigId(h, store, id, config, copies) ==
    LET Kept(c) ==
            [h |-> c.h,
             store |-> IF IndexOfKey(store, id, 1) = 0 THEN Append(store, Entry(id, c.v))
                       ELSE [store EXCEPT ![IndexOfKey(store, id, 1)].val = c.v]]
    IN  IF copies THEN Kept(JSONClone(h, config)) ELSE Kept([h |-> h, v |-> config])

\* ConfigResponse.getData(id)
getData(store, id) == getOriginalConfigByConfigId(store, id)

\* Object.keys(currentDbVariables).forEach of get, from key i on: a db
\* variable the original configuration does not hold is taken from the
\* current one
RECURSIVE FillDbVariables(_, _, _, _, _)
FillDbVariables(h, originalDbVariables, currentDbVariables, keys, i) ==
    IF i > Len(keys) THEN Ok(h, originalDbVariables)
    ELSE IF Truthy(Get(h, originalDbVariables, keys[i]))
    THEN FillDbVariables(h, originalDbVariables, currentDbVariables, keys, i + 1)
    ELSE IF originalDbVariables.t # "ref" THEN Threw(h)
    ELSE FillDbVariables(SetProp(h, originalDbVariables, keys[i],
                                 Get(h, currentDbVariables, keys[i])),
                         originalDbVariables, currentDbVariables, keys, i + 1)

\* AdoptOriginalConfig, were the original config of the state never stored
AdoptOriginalConfigNever(h, store, state, configId, copies) ==
    [h |-> h, store |-> store,
     log |-> IF Truthy(GetProp(h, state, "originalConfig")) THEN <<"get">> ELSE <<>>]

\* AdoptOriginalConfig, were the original config of the state stored without
\* asking the store whether it holds one
AdoptOriginalConfigUnasked(h, store, state, configId, copies) ==
    LET Adopted(s) == [h |-> s.h, store |-> s.store, log |-> <<"set">>]
    IN  IF ~Truthy(GetProp(h, state, "originalConfig")) THEN [h |-> h, store |-> store, log |-> <<>>]
        ELSE Adopted(setOriginalConfigByConfigId(h, store, configId,
                                                 GetProp(h, state, "originalConfig"), copies))

\* if (state.originalConfig && !doState.getOriginalConfigByConfigId(this.configId))
\*     doState.setOriginalConfigByConfigId(this.configId, state.originalConfig):
\* the heap and the store after it, and its accesses to the store
AdoptOriginalConfig(h, store, state, configId, copies) ==
    LET Adopted(s) == [h |-> s.h, store |-> s.store, log |-> <<"get", "set">>]
    IN  IF ~Truthy(GetProp(h, state, "originalConfig")) THEN [h |-> h, store |-> store, log |-> <<>>]
        ELSE IF Truthy(getOriginalConfigByConfigId(store, configId))
        THEN [h |-> h, store |-> store, log |-> <<"get">>]
        ELSE Adopted(setOriginalConfigByConfigId(h, store, configId,
                                                 GetProp(h, state, "originalConfig"), copies))

\* The last handler of get, once the references are set: state.currentConfig
\* is replaced, the original configuration of the device is chosen, filled
\* with the db variables it lacks, stored and set on state.  log is the
\* accesses to the store, in order.
StoreOriginalConfig(h, store, state, configId, currentConfig, copies) ==
    LET Out(hh, st, threw, log) == [h |-> hh, store |-> st, threw |-> threw, log |-> log]
        \* doState.setOriginalConfigByConfigId(this.configId, originalConfig);
        \* state.originalConfig = originalConfig
        Stored(r, st, originalConfig, log) ==
            IF r.threw THEN Out(r.h, st, TRUE, log)
            ELSE LET Set(s) == Out(SetProp(s.h, state, "originalConfig", originalConfig),
                                   s.store, FALSE, Append(log, "set"))
                 IN  Set(setOriginalConfigByConfigId(r.h, st, configId, originalConfig, copies))
        Filled(hh, st, originalConfig, log) ==
            LET currentDbVariables == Get(hh, currentConfig, "DbVariables")
                common == Get(hh, originalConfig, "Common")
                Into(hf, originalDbVariables) ==
                    Stored(FillDbVariables(hf, originalDbVariables, currentDbVariables,
                                           KeysOfValue(hf, currentDbVariables), 1),
                           st, originalConfig, log)
                Fresh(n) == Into(SetProp(n.h, common, "DbVariables", n.v), n.v)
            IN  IF ~Truthy(currentDbVariables) THEN Stored(Ok(hh, Undef), st, originalConfig, log)
                ELSE IF Nullish(common) THEN Out(hh, st, TRUE, log)
                ELSE IF Truthy(Get(hh, common, "DbVariables"))
                THEN Into(hh, Get(hh, common, "DbVariables"))
                ELSE IF common.t # "ref" THEN Out(hh, st, TRUE, log)
                ELSE Fresh(NewNode(hh, "obj"))
        \* const originalConfig = doState.getOriginalConfigByConfigId(this.configId)
        \*     || state.currentConfig
        Chosen(s) ==
            Filled(s.h, s.store,
                   IF Truthy(getOriginalConfigByConfigId(s.store, configId))
                   THEN getOriginalConfigByConfigId(s.store, configId)
                   ELSE GetProp(s.h, state, "currentConfig"),
                   Append(s.log, "get"))
        Current(n) ==
            Chosen(AdoptOriginalConfig(SetProp(SetProp(SetProp(n.h, n.v, "parsed", Bool(TRUE)),
                                                       n.v, "Common", currentConfig),
                                               state, "currentConfig", n.v),
                                       store, state, configId, copies))
    IN  Current(NewNode(h, "obj"))

\* The db variables get asks for: those of state.currentConfig and those of
\* the DbVariables objects of the declaration (lines 117-135).
DbVarsOfInterest(h, state, decl) ==
    LET currentCurrentConfig == GetProp(h, state, "currentConfig")
        known == IF /\ Truthy(currentCurrentConfig)
                    /\ Truthy(Get(h, currentCurrentConfig, "Common"))
                    /\ Truthy(Get(h, Get(h, currentCurrentConfig, "Common"), "DbVariables"))
                 THEN SelectSeq(KeysOfValue(h, Get(h, Get(h, currentCurrentConfig, "Common"),
                                                   "DbVariables")),
                                LAMBDA dbVar : dbVar # "class")
                 ELSE <<>>
        common == Get(h, decl, "Common")
        keys == IF Truthy(common) THEN KeysOfValue(h, common) ELSE <<>>
        Wanted(key) ==
            IF Get(h, Get(h, common, key), "class") = Str("DbVariables")
            THEN SelectSeq(KeysOfValue(h, Get(h, common, key)), LAMBDA dbVar : dbVar # "class")
            ELSE <<>>
        RECURSIVE Declared(_)
        Declared(i) == IF i > Len(keys) THEN <<>> ELSE Wanted(keys[i]) \o Declared(i + 1)
    IN  IF Nullish(decl) \/ \E i \in 1..Len(keys) : Nullish(Get(h, common, keys[i]))
        THEN [threw |-> TRUE, v |-> <<>>]
        ELSE [threw |-> FALSE, v |-> known \o Declared(1)]

\* the handler of the provisioning read: the names of the provisioned modules
ProvisionedModules(h, provisioning) ==
    IF ~IsArray(h, provisioning)
          \/ \E i \in 1..Len(Elements(h, provisioning)) : Nullish(Elements(h, provisioning)[i])
    THEN [threw |-> TRUE, v |-> <<>>]
    ELSE [threw |-> FALSE,
          v |-> LET modules == SelectSeq(Elements(h, provisioning),
                                         LAMBDA module : Get(h, module, "level") # Str("none"))
                IN  [i \in 1..Len(modules) |-> Get(h, modules[i], "name")]]

\* a read of the device in flight or settled: what was asked, whether it is
\* pending, fulfilled or rejected, its result, and when it settled (the
\* number of reads of this get settled by then)
Read(kind, path) ==
    [kind |-> kind, path |-> path, status |-> "pending", value |-> Undef, settled |-> 0]
\* the promise of a config item whose module is not provisioned: Promise.resolve(false)
Skipped == [kind |-> "items", path |-> "", status |-> "fulfilled", value |-> Bool(FALSE), settled |-> 0]

\* the path get reads for a config item (lines 162-173)
ItemPath(h, configItem, tokenMap) ==
    LET encodedQuery == QsStringify(<<
            [key |-> "$filter", val |-> "partition eq Common"],
            [key |-> "$select",
             val |-> SelectOf(h, getPropertiesOfInterest(h, Get(h, configItem, "properties")))]>>)
    IN  StrReplace(StrReplace(ToKey(h, Get(h, configItem, "path")) \o "?" \o encodedQuery,
                              "{{hostName}}", ToKey(h, tokenMap.hostName)),
                   "{{deviceName}}", ToKey(h, tokenMap.deviceName))

\* ItemReads, were every config item read whatever module it requires
ItemReadsUnconditional(h, configItems, provisionedModules, tokenMap) ==
    [i \in 1..Len(Elements(h, configItems)) |->
        Read("items", ItemPath(h, Elements(h, configItems)[i], tokenMap))]

\* this.configItems.map(...): the reads of the config items, in their order
ItemReads(h, configItems, provisionedModules, tokenMap) ==
    [i \in 1..Len(Elements(h, configItems)) |->
        LET configItem == Elements(h, configItems)[i]
        IN  IF /\ Truthy(Get(h, configItem, "requiredModule"))
               /\ \A j \in 1..Len(provisionedModules) :
                      provisionedModules[j] # Get(h, configItem, "requiredModule")
            THEN Skipped
            ELSE Read("items", ItemPath(h, configItem, tokenMap))]

\* getTokenMap, once the cm devices are read: the devices with our hostname
TokenDevices(h, cmDeviceInfo, hostName) ==
    SelectSeq(Elements(h, cmDeviceInfo), LAMBDA device : Get(h, device, "hostname") = hostName)

\* Promise.all, were it to settle with the first of the promises to settle
PromiseFirstState(promises) ==
    IF \E i \in 1..Len(promises) : promises[i].status = "rejected" THEN "rejected"
    ELSE IF \E i \in 1..Len(promises) : promises[i].status = "fulfilled" THEN "fulfilled"
    ELSE IF promises = <<>> THEN "fulfilled"
    ELSE "pending"

\* Promise.all(promises): pending until all are fulfilled or one is rejected
PromiseAllState(promises) ==
    IF \E i \in 1..Len(promises) : promises[i].status = "rejected" THEN "rejected"
    ELSE IF \A i \in 1..Len(promises) : promises[i].status = "fulfilled" THEN "fulfilled"
    ELSE "pending"

\* Promise.all, were it to resolve with the values in the order in which the
\* promises settled
PromiseValuesAsSettled(promises) ==
    [i \in 1..Len(promises) |->
        promises[CHOOSE j \in 1..Len(promises) :
                     Cardinality({k \in 1..Len(promises) :
                                     \/ promises[k].settled < promises[j].settled
                                     \/ promises[k].settled = promises[j].settled /\ k < j}) = i - 1].value]

\* the values Promise.all resolves with: those of the promises, in their order
PromiseAllValues(promises) == [i \in 1..Len(promises) |-> promises[i].value]

\* the heap nodes reachable from a value (documents are trees or DAGs)
RECURSIVE Reach(_, _)
Reach(h, v) ==
    IF v.t # "ref" THEN {}
    ELSE {v.r} \cup UNION {Reach(h, h[v.r].e[i].val) : i \in 1..Len(h[v.r].e)}

\* the nodes reachable from v that are not in seen, appended to seen in the
\* order a traversal of v meets them
RECURSIVE Visit(_, _, _, _)
Visit(h, v, i, seen) ==
    IF v.t # "ref" THEN seen
    ELSE IF i = 0
    THEN IF \E n \in 1..Len(seen) : seen[n] = v.r THEN seen ELSE Visit(h, v, 1, Append(seen, v.r))
    ELSE IF i > Len(h[v.r].e) THEN seen
    ELSE Visit(h, v, i + 1, Visit(h, h[v.r].e[i].val, 0, seen))

RECURSIVE VisitAll(_, _, _, _)
VisitAll(h, roots, i, seen) ==
    IF i > Len(roots) THEN seen ELSE VisitAll(h, roots, i + 1, Visit(h, roots[i], 0, seen))

\* Once get has settled, its locals and the read results are out of scope:
\* the heap keeps the nodes reachable from the roots, in the order a traversal
\* of the roots meets them.
Collect(h, roots) ==
    LET live == VisitAll(h, roots, 1, <<>>)
        Moved(a) == CHOOSE n \in 1..Len(live) : live[n] = a
        Relocate(v) == IF v.t = "ref" THEN Ref(Moved(v.r)) ELSE v
    IN  [h |-> [n \in 1..Len(live) |->
                    [k |-> h[live[n]].k,
                     e |-> [i \in 1..Len(h[live[n]].e) |->
                               Entry(h[live[n]].e[i].key, Relocate(h[live[n]].e[i].val))]]],
         roots |-> [i \in 1..Len(roots) |-> Relocate(roots[i])]]

-----------------------------------------------------------------------------
(* The config items, devices, task states and declarations that get is      *)
(* checked on.                                                              *)

MaxFetches == 2

Props(ids) == LArr([i \in 1..Len(ids) |-> LObj(<<Entry("id", LStr(ids[i]))>>)])

\* all db variables, each reduced to its value
ItemDb ==
    LObj(<<Entry("path", LStr("/tm/sys/db")), Entry("schemaClass", LStr("DbVariables")),
           Entry("properties", Props(<<"value">>)), Entry("singleValue", LBool(TRUE))>>)
\* one db variable that holds a truth value
ItemFlag ==
    LObj(<<Entry("path", LStr("/tm/sys/db/flag")), Entry("schemaClass", LStr("DbVariables")),
           Entry("properties",
                 LArr(<<LObj(<<Entry("id", LStr("value")), Entry("newId", LStr("flag")),
                               Entry("truth", LStr("true")), Entry("falsehood", LStr("false"))>>)>>)),
           Entry("nameless", LBool(TRUE))>>)
ItemVlan ==
    LObj(<<Entry("path", LStr("/tm/net/vlan")), Entry("schemaClass", LStr("VLAN")),
           Entry("properties", Props(<<"mtu">>)),
           Entry("references",
                 LObj(<<Entry("interfacesReference",
                              LArr(<<LObj(<<Entry("id", LStr("tagged")), Entry("truth", LBool(TRUE)),
                                            Entry("falsehood", LBool(FALSE))>>)>>))>>))>>)
ItemAuth ==
    LObj(<<Entry("path", LStr("/tm/auth/source")), Entry("schemaClass", LStr("Authentication")),
           Entry("properties", Props(<<"type", "fallback">>)), Entry("nameless", LBool(TRUE))>>)
ItemLdap ==
    LObj(<<Entry("path", LStr("/tm/auth/ldap")), Entry("schemaClass", LStr("Authentication")),
           Entry("properties", Props(<<"port">>)), Entry("nameless", LBool(TRUE)),
           Entry("schemaMerge", LObj(<<Entry("path", LArr(<<LStr("ldap")>>)),
                                       Entry("skipWhenOmitted", LBool(TRUE))>>))>>)
ItemGlobal ==
    LObj(<<Entry("path", LStr("/tm/sys/global-settings")), Entry("properties", Props(<<"hostname">>)),
           Entry("nameless", LBool(TRUE))>>)
ItemAvr ==
    LObj(<<Entry("path", LStr("/tm/analytics/global-settings")), Entry("requiredModule", LStr("avr")),
           Entry("schemaClass", LStr("Analytics")), Entry("properties", Props(<<"avrdInterval">>)),
           Entry("nameless", LBool(TRUE))>>)

ConfigItemLists ==
    {LArr(<<ItemVlan, ItemDb>>), LArr(<<ItemAuth, ItemLdap>>), LArr(<<ItemLdap, ItemAuth>>),
     LArr(<<ItemFlag, ItemAvr>>), LArr(<<ItemGlobal, ItemDb>>)}

\* a device: its machine id, the value of db variable K (which may be the
\* empty string; it also has db variables J and L) and of the flag, how
\* it writes the names of its VLANs, and the level of its avr module
Devices ==
    {[machineId |-> "m1", db |-> "v1", flag |-> "false", prefix |-> "", avr |-> "none"],
     [machineId |-> "m1", db |-> "v2", flag |-> "true", prefix |-> "/Common/", avr |-> "nominal"],
     [machineId |-> "m2", db |-> "", flag |-> "false", prefix |-> "", avr |-> "none"]}

Named(name, entries) == LObj(<<Entry("name", LStr(name))>> \o entries)

VlanOf(dev, name) ==
    Named(dev.prefix \o name,
          <<Entry("mtu", LNum(1500)),
            Entry("interfacesReference",
                  LObj(<<Entry("link", LStr("https://localhost/mgmt/tm/net/vlan/~Common~" \o name
                                            \o "/interfaces?ver=13.1.0")),
                         Entry("isSubcollection", LBool(TRUE))>>))>>)

\* what the device answers to a read, LAbsent when it has no such resource
Resource(dev, read) ==
    LET pathname == UrlParse(read.path).pathname
    IN  CASE read.kind = "deviceInfo" ->
                 LObj(<<Entry("machineId", LStr(dev.machineId)), Entry("hostname", LStr("bigip1"))>>)
          [] pathname = "/tm/sys/provision" ->
                 LArr(<<Named("ltm", <<Entry("level", LStr("nominal"))>>),
                        Named("avr", <<Entry("level", LStr(dev.avr))>>)>>)
          [] pathname = "/tm/cm/device" ->
                 LArr(<<Named("dev1", <<Entry("hostname", LStr("bigip1"))>>),
                        Named("dev2", <<Entry("hostname", LStr("peer"))>>)>>)
          [] pathname = "/tm/sys/db" ->
                 LArr(<<Named("K", <<Entry("value", LStr(dev.db))>>),
                        Named("J", <<Entry("value", LStr("j"))>>),
                        Named("L", <<Entry("value", LStr("l"))>>)>>)
          [] pathname = "/tm/sys/db/flag" -> Named("flag", <<Entry("value", LStr(dev.flag))>>)
          [] pathname = "/tm/net/vlan" -> LArr(<<VlanOf(dev, "v1"), VlanOf(dev, "v2")>>)
          [] pathname = "/tm/net/vlan/~Common~v1/interfaces" ->
                 LArr(<<Named("1.1", <<Entry("tagged", LBool(TRUE))>>)>>)
          [] pathname = "/tm/net/vlan/~Common~v2/interfaces" -> LArr(<<Named("1.2", <<>>)>>)
          [] pathname = "/tm/auth/source" ->
                 LObj(<<Entry("type", LStr("ldap")), Entry("fallback", LStr("true"))>>)
          [] pathname = "/tm/auth/ldap" -> LArr(<<Named("system-auth", <<Entry("port", LNum(389))>>)>>)
          [] pathname = "/tm/sys/global-settings" -> LObj(<<Entry("hostname", LStr("bigip1"))>>)
          [] pathname = "/tm/analytics/global-settings" -> LObj(<<Entry("avrdInterval", LNum(300))>>)
          [] OTHER -> LAbsent

\* the state of a task: new, or saved by a prior version with its original
\* config and the current config of that time (with db variable K) on it
TaskStates ==
    {LObj(<<>>),
     LObj(<<Entry("originalConfig",
                  LObj(<<Entry("Common",
                               LObj(<<Entry("hostname", LStr("old")),
                                      Entry("DbVariables", LObj(<<Entry("J", LStr("orig"))>>))>>))>>)),
            Entry("currentConfig",
                  LObj(<<Entry("Common",
                               LObj(<<Entry("DbVariables", LObj(<<Entry("K", LStr("was"))>>))>>))>>))>>)}

\* the declaration of the caller: it sets db variable J
FetchDeclarations ==
    {LObj(<<Entry("Common",
                  LObj(<<Entry("vars", LObj(<<Entry("class", LStr("DbVariables")),
                                              Entry("J", LStr("want"))>>))>>))>>)}

-----------------------------------------------------------------------------
(* The caller of get: a task holds a ConfigManager over a device and the    *)
(* state of the task, and calls get(declaration, state, doState).  The      *)
(* reads of the device settle in any order and each may fail; a handler of  *)
(* get runs once the promise it is chained to has settled.                  *)

FetchInit ==
    /\ \E items \in ConfigItemLists, task \in TaskStates :
       \E c \in {ParseJSON(<<>>, items)} :
       \E s \in {ParseJSON(c.h, task)} :
           /\ heap = s.h
           /\ configManager = [configItems |-> c.v, configId |-> Undef]
           /\ taskState = s.v
    /\ bigIp \in Devices
    /\ doState \in {[originalConfig |-> <<>>, copies |-> copies] : copies \in BOOLEAN}
    /\ reads = <<>>
    /\ get = NoGet
    /\ fetched = 0
    /\ auth = NoAuth
    /\ other = NoOther
    /\ system = NoSystem
    /\ pc = "idle"
    /\ desired = LAbsent
    /\ current = LAbsent
    /\ toDeclaration = Undef
    /\ fromDeclaration = Undef
    /\ run1 = NoRun
    /\ run2 = NoRun
    /\ declText = LAbsent
    /\ userDeclaration = Undef
    /\ parser = NoParser
    /\ parses = <<>>

\* the texts of the stored original configs
StoredTexts(h, store) == [i \in 1..Len(store) |-> Entry(store[i].key, StringifyJSON(h, store[i].val))]

\* the reads that the running stage of get waits for
Awaited == SelectSeq(reads, LAMBDA read : read.kind = pc)

\* the number of reads settled so far
Settled == Cardinality({i \in 1..Len(reads) : reads[i].settled > 0})

\* the awaited read that was rejected
FirstRejected == CHOOSE i \in 1..Len(reads) : reads[i].kind = pc /\ reads[i].status = "rejected"

Running == pc \in {"provision", "deviceInfo", "cmDevice", "items", "references"}

TypeError == [kind |-> "TypeError", read |-> 0]

\* get(declaration, state, doState) up to its first read
CallGet ==
    /\ pc = "idle"
    /\ fetched < MaxFetches
    /\ \E text \in FetchDeclarations :
       \E d \in {ParseJSON(heap, text)} :
       \E vs \in {DbVarsOfInterest(d.h, taskState, d.v)} :
       \E n \in {NewNode(d.h, "obj")} :
           /\ heap' = n.h
           /\ get' = [NoGet EXCEPT
                        !.declaration = d.v,
                        !.dbVarsOfInterest = vs.v,
                        !.currentConfig = n.v,
                        !.error = IF vs.threw THEN TypeError ELSE NoGet.error,
                        !.before = [currentConfig |-> GetProp(heap, taskState, "currentConfig"),
                                    originalConfig |-> GetProp(heap, taskState, "originalConfig"),
                                    state |-> StringifyJSON(heap, taskState),
                                    doState |-> doState.originalConfig,
                                    stored |-> StoredTexts(heap, doState.originalConfig)]]
           /\ reads' = IF vs.threw THEN <<>> ELSE <<Read("provision", "/tm/sys/provision")>>
           /\ pc' = IF vs.threw THEN "rejected" ELSE "provision"
    /\ fetched' = fetched + 1
    /\ UNCHANGED <<configManager, bigIp, taskState, doState, diffVars, parseVars, systemVars, auth, other>>

\* a read of the device is answered; once the promise get waits for has
\* settled its handler runs, and no handler is left for the reads still pending
Fulfil ==
    /\ Running
    /\ PromiseAllState(Awaited) = "pending"
    /\ \E i \in 1..Len(reads) :
           /\ reads[i].status = "pending"
           /\ Resource(bigIp, reads[i]) # LAbsent
           /\ \E p \in {ParseJSON(heap, Resource(bigIp, reads[i]))} :
                  /\ heap' = p.h
                  /\ reads' = [reads EXCEPT ![i].status = "fulfilled", ![i].value = p.v,
                                            ![i].settled = Settled + 1]
    /\ UNCHANGED <<pc, configManager, bigIp, taskState, doState, get, fetched, diffVars, parseVars,
                   systemVars, auth, other>>

\* a read of the device fails
Reject ==
    /\ Running
    /\ PromiseAllState(Awaited) = "pending"
    /\ \E i \in 1..Len(reads) :
           /\ reads[i].status = "pending"
           /\ reads' = [reads EXCEPT ![i].status = "rejected", ![i].settled = Settled + 1]
    /\ UNCHANGED <<heap, pc, configManager, bigIp, taskState, doState, get, fetched,
                   diffVars, parseVars, systemVars, auth, other>>

\* .then((provisioning) => ...).then(() => this.bigIp.deviceInfo())
OnProvisioning ==
    /\ pc = "provision"
    /\ PromiseAllState(Awaited) = "fulfilled"
    /\ \E r \in {ProvisionedModules(heap, Awaited[1].value)} :
           /\ get' = [get EXCEPT !.provisionedModules = r.v,
                                 !.error = IF r.threw THEN TypeError ELSE @]
           /\ reads' = IF r.threw THEN reads ELSE Append(reads, Read("deviceInfo", ""))
           /\ pc' = IF r.threw THEN "rejected" ELSE "deviceInfo"
    /\ UNCHANGED <<heap, configManager, bigIp, taskState, doState, fetched, diffVars, parseVars, systemVars, auth, other>>

\* .then((deviceInfo) => ...): this.configId is set and getTokenMap reads
\* the cm devices
OnDeviceInfo ==
    /\ pc = "deviceInfo"
    /\ PromiseAllState(Awaited) = "fulfilled"
    /\ \E deviceInfo \in {Awaited[1].value} :
           IF Nullish(deviceInfo)
           THEN /\ get' = [get EXCEPT !.error = TypeError]
                /\ pc' = "rejected"
                /\ UNCHANGED <<configManager, reads>>
           ELSE /\ configManager' = [configManager EXCEPT !.configId = Get(heap, deviceInfo, "machineId")]
                /\ get' = [get EXCEPT !.tokenMap.hostName = Get(heap, deviceInfo, "hostname")]
                /\ reads' = Append(reads, Read("cmDevice", "/tm/cm/device"))
                /\ pc' = "cmDevice"
    /\ UNCHANGED <<heap, bigIp, taskState, doState, fetched, diffVars, parseVars, systemVars, auth, other>>

\* the handler of getTokenMap and .then((tokenMap) => ...): the reads of the
\* config items are issued
OnCmDevice ==
    /\ pc = "cmDevice"
    /\ PromiseAllState(Awaited) = "fulfilled"
    /\ \E cmDeviceInfo \in {Awaited[1].value} :
           IF ~IsArray(heap, cmDeviceInfo)
                 \/ \E i \in 1..Len(Elements(heap, cmDeviceInfo)) : Nullish(Elements(heap, cmDeviceInfo)[i])
           THEN /\ get' = [get EXCEPT !.error = TypeError]
                /\ pc' = "rejected"
                /\ UNCHANGED reads
           ELSE \E devices \in {TokenDevices(heap, cmDeviceInfo, get.tokenMap.hostName)} :
                    IF Len(devices) # 1
                    THEN /\ get' = [get EXCEPT !.error = [kind |-> "Too many devices match our name",
                                                          read |-> 0]]
                         /\ pc' = "rejected"
                         /\ UNCHANGED reads
                    ELSE \E tokenMap \in {[hostName |-> get.tokenMap.hostName,
                                           deviceName |-> Get(heap, devices[1], "name")]} :
                             /\ get' = [get EXCEPT !.tokenMap = tokenMap]
                             /\ reads' = reads \o ItemReads(heap, configManager.configItems,
                                                            get.provisionedModules, tokenMap)
                             /\ pc' = "items"
    /\ UNCHANGED <<heap, configManager, bigIp, taskState, doState, fetched, diffVars, parseVars, systemVars, auth, other>>

\* OnResults, were the handler of the results to set state.currentConfig
\* before the references are read
OnResultsCommitting ==
    /\ pc = "items"
    /\ PromiseAllState(Awaited) = "fulfilled"
    /\ \E r \in {Results(heap, <<>>, PromiseAllValues(Awaited), 1, configManager.configItems,
                         get.currentConfig, get.dbVarsOfInterest)} :
           /\ heap' = SetProp(r.h, taskState, "currentConfig", get.currentConfig)
           /\ reads' = reads \o [i \in 1..Len(r.refs) |-> Read("references", r.refs[i].path)]
           /\ get' = [get EXCEPT !.referenceInfo = r.refs,
                                 !.error = IF r.threw THEN TypeError ELSE @]
           /\ pc' = IF r.threw THEN "rejected" ELSE "references"
    /\ UNCHANGED <<configManager, bigIp, taskState, doState, fetched, diffVars, parseVars, systemVars, auth, other>>

\* .then((results) => ...): the results are put into currentConfig and the
\* reads of their references are issued
OnResults ==
    /\ pc = "items"
    /\ PromiseAllState(Awaited) = "fulfilled"
    /\ \E r \in {Results(heap, <<>>, PromiseAllValues(Awaited), 1, configManager.configItems,
                         get.currentConfig, get.dbVarsOfInterest)} :
           /\ heap' = r.h
           /\ reads' = reads \o [i \in 1..Len(r.refs) |-> Read("references", r.refs[i].path)]
           /\ get' = [get EXCEPT !.referenceInfo = r.refs,
                                 !.error = IF r.threw THEN TypeError ELSE @]
           /\ pc' = IF r.threw THEN "rejected" ELSE "references"
    /\ UNCHANGED <<configManager, bigIp, taskState, doState, fetched, diffVars, parseVars, systemVars, auth, other>>

\* .then((referencesResults) => ...): the references are set on their config
\* items, state.currentConfig is set and the original config is stored
OnReferencesResults ==
    /\ pc = "references"
    /\ PromiseAllState(Awaited) = "fulfilled"
    /\ \E r \in {ReferencesResults(heap, PromiseAllValues(Awaited), 1, get.referenceInfo,
                                   get.currentConfig)} :
           IF r.threw
           THEN /\ heap' = r.h
                /\ get' = [get EXCEPT !.error = TypeError]
                /\ pc' = "rejected"
                /\ UNCHANGED doState
           ELSE \E s \in {StoreOriginalConfig(r.h, doState.originalConfig, taskState,
                                              configManager.configId, get.currentConfig,
                                              doState.copies)} :
                    /\ heap' = s.h
                    /\ doState' = [doState EXCEPT !.originalConfig = s.store]
                    /\ get' = [get EXCEPT
                                 !.error = IF s.threw THEN TypeError ELSE @,
                                 !.log = [i \in 1..Len(s.log) |->
                                             [op |-> s.log[i], reads |-> Len(reads)]]]
                    /\ pc' = IF s.threw THEN "rejected" ELSE "resolved"
    /\ UNCHANGED <<configManager, bigIp, taskState, reads, fetched, diffVars, parseVars, systemVars, auth, other>>

\* .catch((err) => ...): a read that get waits for was rejected, and get
\* rejects with its error
OnError ==
    /\ Running
    /\ PromiseAllState(Awaited) = "rejected"
    /\ get' = [get EXCEPT !.error = [kind |-> "read", read |-> FirstRejected]]
    /\ pc' = "rejected"
    /\ UNCHANGED <<heap, configManager, bigIp, taskState, doState, reads, fetched,
                   diffVars, parseVars, systemVars, auth, other>>

\* the caller goes on once get has settled: what get held is out of scope
Return ==
    /\ pc \in {"resolved", "rejected"}
    /\ \E c \in {Collect(heap, <<taskState, configManager.configItems>>
                               \o [i \in 1..Len(doState.originalConfig) |->
                                      doState.originalConfig[i].val])} :
           /\ heap' = c.h
           /\ taskState' = c.roots[1]
           /\ configManager' = [configManager EXCEPT !.configItems = c.roots[2]]
           /\ doState' = [doState EXCEPT !.originalConfig =
                             [i \in 1..Len(@) |-> Entry(@[i].key, c.roots[i + 2])]]
    /\ reads' = <<>>
    /\ get' = NoGet
    /\ pc' = "idle"
    /\ UNCHANGED <<bigIp, fetched, diffVars, parseVars, systemVars, auth, other>>

\* the next get is called by another task, with the state of that task
NewTask ==
    /\ pc = "idle"
    /\ fetched \in 1..(MaxFetches - 1)
    /\ \E task \in TaskStates :
       \E c \in {Collect(heap, <<configManager.configItems>>
                               \o [i \in 1..Len(doState.originalConfig) |->
                                      doState.originalConfig[i].val])} :
       \E s \in {ParseJSON(c.h, task)} :
           /\ heap' = s.h
           /\ taskState' = s.v
           /\ s.v # taskState \/ s.h # heap
           /\ configManager' = [configManager EXCEPT !.configItems = c.roots[1]]
           /\ doState' = [doState EXCEPT !.originalConfig =
                             [i \in 1..Len(@) |-> Entry(@[i].key, c.roots[i + 1])]]
    /\ UNCHANGED <<pc, bigIp, reads, get, fetched, diffVars, parseVars, systemVars, auth, other>>

\* the configuration of the device is changed, or the device is replaced
DeviceChanges ==
    /\ pc = "idle"
    /\ fetched \in 1..(MaxFetches - 1)
    /\ bigIp' \in Devices \ {bigIp}
    /\ UNCHANGED <<heap, pc, configManager, taskState, doState, reads, get, fetched,
                   diffVars, parseVars, systemVars, auth, other>>

FetchNext ==
    \/ CallGet \/ Fulfil \/ Reject \/ OnProvisioning \/ OnDeviceInfo \/ OnCmDevice \/ OnResults
    \/ OnReferencesResults \/ OnError \/ Return \/ NewTask \/ DeviceChanges

FetchSpec == FetchInit /\ [][FetchNext]_vars

-----------------------------------------------------------------------------
(* patchAuth on its own: get calls it for every item of class               *)
(* Authentication with the schemaMerge of the config item, the class built  *)
(* so far and the item.  Here a caller holds the three and calls it once.   *)

SchemaMerges ==
    {LAbsent}
    \cup {LObj(Members(<<Entry("path", path), Entry("action", action),
                         Entry("skipWhenOmitted", skip)>>)) :
            path \in {LArr(<<LStr("ldap")>>), LArr(<<LStr("radius"), LStr("servers")>>)},
            action \in {LAbsent, LStr("add"), LStr("replace")},
            skip \in {LAbsent, LBool(TRUE)}}

\* the class built so far: none, the parent alone, or with a sub-resource
AuthClasses ==
    {LAbsent,
     LObj(<<Entry("enabledSourceType", LStr("local")), Entry("fallback", LBool(TRUE))>>),
     LObj(<<Entry("enabledSourceType", LStr("ldap")),
            Entry("ldap", LObj(<<Entry("port", LNum(1)), Entry("ssl", LStr("x"))>>))>>),
     LObj(<<Entry("enabledSourceType", LStr("radius")),
            Entry("radius",
                  LObj(<<Entry("serviceType", LStr("x")),
                         Entry("servers",
                               LObj(<<Entry("primary", LObj(<<Entry("server", LStr("a"))>>))>>))>>))>>)}

\* the item: empty, a sub-resource, a radius server by its name, the parent
AuthItems ==
    {LObj(<<>>),
     LObj(<<Entry("port", LNum(389))>>),
     Named(RADIUS_PRIMARY_SERVER, <<Entry("server", LStr("b"))>>),
     Named(RADIUS_SECONDARY_SERVER, <<Entry("server", LStr("c"))>>),
     Named(RADIUS_SERVER_PREFIX \o "9", <<Entry("server", LStr("d"))>>),
     LObj(<<Entry("type", LStr("active-directory")), Entry("fallback", LStr("true"))>>)}

AuthInit ==
    /\ \E s \in SchemaMerges, c \in AuthClasses, i \in AuthItems :
       \E ps \in {ParseJSON(<<>>, s)} :
       \E pcl \in {ParseJSON(ps.h, c)} :
       \E pi \in {ParseJSON(pcl.h, i)} :
           /\ heap = pi.h
           /\ auth = [NoAuth EXCEPT !.schemaMerge = ps.v, !.authClass = pcl.v, !.authItem = pi.v,
                                    !.text = [schemaMerge |-> s, authClass |-> c, authItem |-> i]]
    /\ pc = "auth"
    /\ desired = LAbsent
    /\ current = LAbsent
    /\ toDeclaration = Undef
    /\ fromDeclaration = Undef
    /\ run1 = NoRun
    /\ run2 = NoRun
    /\ declText = LAbsent
    /\ userDeclaration = Undef
    /\ parser = NoParser
    /\ parses = <<>>
    /\ configManager = [configItems |-> Undef, configId |-> Undef]
    /\ bigIp = [machineId |-> "", db |-> "", flag |-> "", prefix |-> "", avr |-> ""]
    /\ taskState = Undef
    /\ doState = [originalConfig |-> <<>>, copies |-> FALSE]
    /\ reads = <<>>
    /\ get = NoGet
    /\ fetched = 0
    /\ other = NoOther
    /\ system = NoSystem

\* patchAuth(schemaMerge, authClass, authItem)
CallPatchAuth ==
    /\ pc = "auth"
    /\ \E r \in {patchAuth(heap, auth.schemaMerge, auth.authClass, auth.authItem)} :
           /\ heap' = r.h
           /\ auth' = [auth EXCEPT !.patchedClass = r.v, !.threw = r.threw]
    /\ pc' = "patched"
    /\ UNCHANGED <<diffVars, parseVars, systemVars, configManager, bigIp, taskState, doState, reads, get,
                   fetched, other>>

AuthNext == CallPatchAuth

AuthSpec == AuthInit /\ [][AuthNext]_vars

-----------------------------------------------------------------------------
(* Two gets on one device and one store.  get takes no lock: two tasks may  *)
(* call it before either has settled.  A handler runs to its end before any *)
(* other handler starts, so the handlers of the two gets interleave in any  *)
(* order; the device may change in between.                                 *)

\* the config items of the two gets: a db variable that holds a truth value
OverlapItemLists == {LArr(<<ItemFlag, ItemAvr>>)}

\* the states of the two tasks: neither carries an original config
OverlapTaskStates == {LObj(<<>>)}

OverlapInit ==
    /\ \E items \in OverlapItemLists, task1 \in OverlapTaskStates, task2 \in OverlapTaskStates :
       \E c \in {ParseJSON(<<>>, items)} :
       \E s1 \in {ParseJSON(c.h, task1)} :
       \E s2 \in {ParseJSON(s1.h, task2)} :
           /\ heap = s2.h
           /\ configManager = [configItems |-> c.v, configId |-> Undef]
           /\ taskState = s1.v
           /\ other = [pc |-> "idle", taskState |-> s2.v, reads |-> <<>>, get |-> NoGet]
    /\ bigIp \in Devices
    /\ doState \in {[originalConfig |-> <<>>, copies |-> copies] : copies \in BOOLEAN}
    /\ reads = <<>>
    /\ get = NoGet
    /\ fetched = 0
    /\ auth = NoAuth
    /\ system = NoSystem
    /\ pc = "idle"
    /\ desired = LAbsent
    /\ current = LAbsent
    /\ toDeclaration = Undef
    /\ fromDeclaration = Undef
    /\ run1 = NoRun
    /\ run2 = NoRun
    /\ declText = LAbsent
    /\ userDeclaration = Undef
    /\ parser = NoParser
    /\ parses = <<>>

\* the next handler to run is one of the other get.  The answer to a read of
\* one get and a handler of the other are independent of each other (an answer
\* is what the device holds when it is given, whichever get asked), so the
\* gets are interleaved stage by stage: the other get goes on when this one
\* has just issued the reads of its stage, or is not running.
Switch ==
    /\ other.pc \in {"idle", "provision", "deviceInfo", "cmDevice", "items", "references"}
    /\ Running => \A i \in 1..Len(Awaited) : Awaited[i].settled = 0
    /\ pc' = other.pc
    /\ taskState' = other.taskState
    /\ reads' = other.reads
    /\ get' = other.get
    /\ other' = [pc |-> pc, taskState |-> taskState, reads |-> reads, get |-> get]
    /\ UNCHANGED <<heap, configManager, bigIp, doState, fetched, auth, diffVars, parseVars,
                   systemVars>>

OverlapNext ==
    \/ CallGet \/ Fulfil \/ Reject \/ OnProvisioning \/ OnDeviceInfo \/ OnCmDevice \/ OnResults
    \/ OnReferencesResults \/ OnError \/ DeviceChanges \/ Switch

OverlapSpec == OverlapInit /\ [][OverlapNext]_vars

-----------------------------------------------------------------------------
(* SystemHandler (src/unnamed/part_001).  process chains the handlers of    *)
(* the system part of a declaration.  Every call of the device (and of      *)
(* doUtil) returns a promise; system.calls is the calls made so far, in the *)
(* order they were made.  A call holds the step of process it belongs to,   *)
(* the function that made it, what it asks, and the handler chained to it.  *)

\* the number of times tryUntil calls isDhcpRunning before it gives up
MaxTries == 2

\* the answer of the device to a call: a dhcp configuration or a status text
NoAnswer == [present |-> FALSE, hasRequestOptions |-> FALSE, requestOptions |-> <<>>, text |-> ""]

Call(step, fn, op, arg, then) ==
    [step |-> step, fn |-> fn, op |-> op, arg |-> arg, body |-> <<>>, opts |-> <<>>, by |-> "",
     then |-> then, chain |-> "main", status |-> "pending", answer |-> NoAnswer]

\* the call is made: its promise is pending
Issue(s, call) == [s EXCEPT !.calls = Append(@, call)]

\* PATHS of sharedConstants, as the handlers use them
PathDNS == "/tm/sys/dns"
PathNTP == "/tm/sys/ntp"
PathDhcpConfig == "/tm/sys/management-dhcp/sys-mgmt-dhcp-config"
PathService == "/tm/sys/service"
PathDhclientStats == "/tm/sys/service/dhclient/stats"

\* process with handleNTP chained before handleDNS
ProcessChainNtpFirst ==
    <<"handleDbVars", "handleNTP", "handleDNS", "handleHostname", "handleUser", "handleLicense">>

\* The handlers that process chains, in the order of its .then calls.
ProcessChain ==
    <<"handleDbVars", "handleDNS", "handleNTP", "handleHostname", "handleUser", "handleLicense">>

\* the handler chained after handler, "done" after the last one
Following(handler) ==
    LET n == CHOOSE i \in 1..Len(ProcessChain) : ProcessChain[i] = handler
    IN  IF n = Len(ProcessChain) THEN "done" ELSE ProcessChain[n + 1]

\* const dhcpOptionsToDisable = []; ... of handleDNS
DnsOptionsToDisable(h, dns) ==
    (IF Truthy(Get(h, dns, "nameServers")) THEN <<"domain-name-servers">> ELSE <<>>)
    \o (IF Truthy(Get(h, dns, "search")) THEN <<"domain-name">> ELSE <<>>)

\* a filter that drops the first of the options to disable only
NewOptionsWithoutFirst(currentOptions, optionsToDisable) ==
    SelectSeq(currentOptions, LAMBDA option : IndexOf(optionsToDisable, option, 1) # 0)

\* currentOptions.filter((option) => optionsToDisable.indexOf(option) === -1)
NewOptions(currentOptions, optionsToDisable) ==
    SelectSeq(currentOptions, LAMBDA option : IndexOf(optionsToDisable, option, 1) = -1)

\* disableDhcpOptions.call(this, optionsToDisable) up to its call of the
\* device; ret is the handler chained to the promise it returns
DisableDhcpOptions(s, step, optionsToDisable, ret) ==
    Issue([s EXCEPT !.optionsToDisable = optionsToDisable, !.ret = ret,
                    !.requiresDhcpRestart = FALSE],
          [Call(step, "disableDhcpOptions", "list", PathDhcpConfig, "disableDhcpOptions.listed")
               EXCEPT !.opts = optionsToDisable])

\* restartDhcp.call(this) up to its call of the device; by is the function
\* that calls it
RestartDhcp(s, step, by, ret) ==
    Issue([s EXCEPT !.ret = ret, !.by = by, !.tries = 0],
          [Call(step, "restartDhcp", "create", PathService, "restartDhcp.created") EXCEPT !.by = by])

\* the promise pushed by handleUser for the user from position n on
RECURSIVE UserPromises(_, _, _, _, _)
UserPromises(h, s, users, userNames, n) ==
    IF n > Len(userNames) THEN s
    ELSE LET username == userNames[n]
             user == Get(h, users, username)
         IN  IF Get(h, user, "userType") = Str("root") /\ username = "root"
             THEN UserPromises(h, Issue(s, Call("User", "handleUser", "onboard.password", username,
                                                "handleUser.all")),
                               users, userNames, n + 1)
             ELSE IF Get(h, user, "userType") = Str("regular")
             THEN UserPromises(h, Issue(s, Call("User", "createOrUpdateUser", "createOrModify", username,
                                                "createOrUpdateUser.created")),
                               users, userNames, n + 1)
             ELSE UserPromises(h, s, users, userNames, n + 1)

\* (ntp.servers || []).map((server) => doUtil.checkDnsResolution(server))
RECURSIVE NtpPromises(_, _, _)
NtpPromises(s, servers, n) ==
    IF n > Len(servers) THEN s
    ELSE NtpPromises(Issue(s, Call("NTP", "handleNTP", "checkDnsResolution",
                                   IF servers[n].t = "string" THEN servers[n].s ELSE "", "handleNTP.checked")),
                     servers, n + 1)

\* every call of the step made by fn has been fulfilled (Promise.all)
AllFulfilled(s, step) ==
    \A n \in 1..Len(s.calls) : s.calls[n].step = step => s.calls[n].status = "fulfilled"

\* process rejects with the error of call i
Rejects(s, i) == [s EXCEPT !.status = "rejected", !.error = i]

\* licensePoolName of handleLicensePool
LicensePoolName(h, license) ==
    IF TypeOf(Get(h, license, "revokeFrom")) = "string" THEN Get(h, license, "revokeFrom")
    ELSE Get(h, Get(h, license, "revokeFrom"), "licensePool")

\* The handler named by label runs, and the handlers after it whose promise
\* is resolved at once (Promise.resolve()), up to the calls that the chain then
\* waits for.  i is the call whose answer the handler is given (0: none).
RECURSIVE Run(_, _, _, _)
Run(h, label, s, i) ==
    LET Common == Get(h, s.declaration, "Common")
        license == Get(h, Common, "License")
        Started(step) == [s EXCEPT !.started = Append(@, step)]
    IN  CASE label = "process" ->
                 IF ~Truthy(Common) THEN [s EXCEPT !.status = "resolved"]
                 ELSE Run(h, ProcessChain[1], [s EXCEPT !.status = "running"], 0)
          [] label = "handleDbVars" ->
                 IF Truthy(Get(h, Common, "DbVariables"))
                 THEN Issue(Started("DbVariables"),
                            Call("DbVariables", "handleDbVars", "onboard.setDbVars", "", Following(label)))
                 ELSE Run(h, Following(label), Started("DbVariables"), 0)
          [] label = "handleDNS" ->
                 IF Truthy(Get(h, Common, "DNS"))
                 THEN DisableDhcpOptions(Started("DNS"), "DNS",
                                         DnsOptionsToDisable(h, Get(h, Common, "DNS")), "handleDNS.replace")
                 ELSE Run(h, Following(label), Started("DNS"), 0)
          [] label = "handleDNS.replace" ->
                 Issue(s, Call("DNS", "handleDNS", "replace", PathDNS, "handleDNS.restart"))
          [] label = "handleDNS.restart" ->
                 RestartDhcp(s, "DNS", "handleDNS", Following("handleDNS"))
          [] label = "handleNTP" ->
                 IF Truthy(Get(h, Common, "NTP"))
                 THEN IF Truthy(Get(h, Get(h, Common, "NTP"), "servers"))
                           /\ Len(Elements(h, Get(h, Get(h, Common, "NTP"), "servers"))) > 0
                      THEN NtpPromises(Started("NTP"), Elements(h, Get(h, Get(h, Common, "NTP"), "servers")), 1)
                      ELSE Run(h, "handleNTP.checked", Started("NTP"), 0)
                 ELSE Run(h, Following(label), Started("NTP"), 0)
          [] label = "handleNTP.checked" ->
                 IF s.status = "running" /\ AllFulfilled(s, "NTP")
                 THEN DisableDhcpOptions(s, "NTP", <<"ntp-servers">>, "handleNTP.replace")
                 ELSE s
          [] label = "handleNTP.replace" ->
                 Issue(s, Call("NTP", "handleNTP", "replace", PathNTP, Following("handleNTP")))
          [] label = "handleHostname" ->
                 IF Truthy(Get(h, Common, "hostname"))
                 THEN Issue(Started("hostname"),
                            Call("hostname", "handleHostname", "onboard.hostname", "", Following(label)))
                 ELSE Run(h, Following(label), Started("hostname"), 0)
          [] label = "handleUser" ->
                 IF Truthy(Get(h, Common, "User"))
                 THEN Run(h, "handleUser.all",
                          UserPromises(h, Started("User"), Get(h, Common, "User"),
                                       KeysOfValue(h, Get(h, Common, "User")), 1), 0)
                 ELSE Run(h, Following(label), Started("User"), 0)
          [] label = "createOrUpdateUser.created" ->
                 IF s.calls[i].arg = s.bigIp.user
                 THEN Issue(s, Call("User", "createOrUpdateUser", "init", s.calls[i].arg, "handleUser.all"))
                 ELSE Run(h, "handleUser.all", s, 0)
          [] label = "handleUser.all" ->
                 IF s.status = "running" /\ AllFulfilled(s, "User")
                 THEN Run(h, Following("handleUser"), s, 0)
                 ELSE s
          [] label = "handleLicense" ->
                 IF Truthy(license)
                 THEN IF Truthy(Get(h, license, "regKey")) \/ Truthy(Get(h, license, "addOnKeys"))
                      THEN Issue(Started("License"),
                                 Call("License", "handleRegKey", "onboard.license", "", "handleRegKey.active"))
                      ELSE Run(h, "handleLicensePool", Started("License"), 0)
                 ELSE Run(h, Following(label), Started("License"), 0)
          [] label = "handleRegKey.active" ->
                 Issue(s, Call("License", "handleRegKey", "active", "", Following("handleLicense")))
          [] label = "handleLicensePool" ->
                 Run(h, "handleLicensePool.promise",
                     IF Truthy(Get(h, license, "reachable"))
                     THEN Issue([s EXCEPT !.side = "pending"],
                                [Call("License", "handleLicensePool", "deviceInfo", "", "getBigIp.deviceInfo")
                                     EXCEPT !.chain = "getBigIp"])
                     ELSE [s EXCEPT !.side = "fulfilled"], 0)
          [] label = "getBigIp.deviceInfo" ->
                 Issue(s, [Call("License", "handleLicensePool", "doUtil.getBigIp", "", "getBigIp.resolve")
                               EXCEPT !.chain = "getBigIp"])
          [] label = "getBigIp.resolve" ->
                 IF s.waiting /\ s.status = "running"
                 THEN Run(h, "handleLicensePool.revoke", [s EXCEPT !.side = "fulfilled", !.waiting = FALSE], 0)
                 ELSE [s EXCEPT !.side = "fulfilled"]
          [] label = "handleLicensePool.promise" ->
                 IF Truthy(Get(h, license, "bigIqHost"))
                 THEN Issue(s, Call("License", "handleLicensePool", "checkDnsResolution",
                                    Get(h, license, "bigIqHost").s, "handleLicensePool.platform"))
                 ELSE Run(h, "handleLicensePool.platform", s, 0)
          [] label = "handleLicensePool.platform" ->
                 Issue(s, Call("License", "handleLicensePool", "getCurrentPlatform", "",
                               "handleLicensePool.getBigIp"))
          [] label = "handleLicensePool.getBigIp" ->
                 CASE s.side = "fulfilled" -> Run(h, "handleLicensePool.revoke", s, 0)
                   [] s.side = "rejected" ->
                          Rejects(s, CHOOSE n \in 1..Len(s.calls) :
                                         s.calls[n].chain = "getBigIp" /\ s.calls[n].status = "rejected")
                   [] OTHER -> [s EXCEPT !.waiting = TRUE]
          [] label = "handleLicensePool.revoke" ->
                 IF Truthy(Get(h, license, "revokeFrom"))
                 THEN Issue(s, Call("License", "handleLicensePool", "onboard.revokeLicenseViaBigIq",
                                    LicensePoolName(h, license).s, "handleLicensePool.license"))
                 ELSE Run(h, "handleLicensePool.license", s, 0)
          [] label = "handleLicensePool.license" ->
                 IF Truthy(Get(h, license, "licensePool"))
                 THEN Issue(s, Call("License", "handleLicensePool", "onboard.licenseViaBigIq",
                                    Get(h, license, "licensePool").s, "handleLicensePool.active"))
                 ELSE Run(h, "handleLicensePool.active", s, 0)
          [] label = "handleLicensePool.active" ->
                 IF TypeOf(Get(h, license, "licensePool")) = "undefined"
                 THEN Run(h, Following("handleLicense"), s, 0)
                 ELSE Issue(s, Call("License", "handleLicensePool", "active", "", Following("handleLicense")))
          [] label = "disableDhcpOptions.listed" ->
                 IF ~s.calls[i].answer.present \/ ~s.calls[i].answer.hasRequestOptions
                 THEN Run(h, "disableDhcpOptions.then", s, 0)
                 ELSE IF Len(s.calls[i].answer.requestOptions)
                             = Len(NewOptions(s.calls[i].answer.requestOptions, s.optionsToDisable))
                 THEN Run(h, "disableDhcpOptions.then", s, 0)
                 ELSE Issue([s EXCEPT !.requiresDhcpRestart = TRUE],
                            [Call(s.calls[i].step, "disableDhcpOptions", "modify", PathDhcpConfig,
                                  "disableDhcpOptions.then")
                                 EXCEPT !.body = NewOptions(s.calls[i].answer.requestOptions,
                                                            s.optionsToDisable),
                                        !.opts = s.optionsToDisable])
          [] label = "disableDhcpOptions.then" ->
                 IF ~s.requiresDhcpRestart THEN Run(h, s.ret, s, 0)
                 ELSE RestartDhcp(s, s.started[Len(s.started)], "disableDhcpOptions", s.ret)
          [] label = "restartDhcp.created" ->
                 Issue(s, [Call(s.calls[i].step, "restartDhcp", "list", PathDhclientStats, "isDhcpRunning")
                               EXCEPT !.by = s.by])
          [] label = "isDhcpRunning" ->
                 IF s.calls[i].answer.text = "is running" THEN Run(h, s.ret, s, 0)
                 ELSE Run(h, "tryUntil", s, i)
          [] label = "tryUntil" ->
                 IF s.tries + 1 < MaxTries
                 THEN Issue([s EXCEPT !.tries = @ + 1],
                            [Call(s.calls[i].step, "restartDhcp", "list", PathDhclientStats, "isDhcpRunning")
                                 EXCEPT !.by = s.by])
                 ELSE Rejects(s, i)
          [] label = "done" -> [s EXCEPT !.status = "resolved"]

\* what the device answers to call c and what it then holds
DeviceAnswers(device, c) ==
    CASE c.op = "list" /\ c.arg = PathDhcpConfig -> {device.dhcp}
      [] c.op = "list" /\ c.arg = PathDhclientStats ->
             {[NoAnswer EXCEPT !.present = TRUE, !.text = t] : t \in {"is running", "is stopped"}}
      [] OTHER -> {NoAnswer}

Written(device, c) ==
    IF c.op = "modify" /\ c.arg = PathDhcpConfig
    THEN [device EXCEPT !.dhcp = [@ EXCEPT !.requestOptions = c.body, !.hasRequestOptions = TRUE]]
    ELSE device

\* the rejection of call i goes down the chain it is part of: tryUntil tries
\* again, the promise of getBigIp is rejected (and process with it once it
\* waits for it), and any other rejection goes to the catch of process
Rejected(h, s, i) ==
    CASE s.calls[i].then = "isDhcpRunning" ->
             IF s.status = "running" THEN Run(h, "tryUntil", s, i) ELSE s
      [] s.calls[i].chain = "getBigIp" ->
             IF s.waiting /\ s.status = "running"
             THEN Rejects([s EXCEPT !.side = "rejected", !.waiting = FALSE], i)
             ELSE [s EXCEPT !.side = "rejected"]
      [] OTHER -> IF s.status = "running" THEN Rejects(s, i) ELSE s

-----------------------------------------------------------------------------
(* The declarations and devices that process is checked on.                 *)

SysDbVariables == {LAbsent, LObj(<<Entry("ui.advisory.enabled", LBool(TRUE))>>)}
SysDNS ==
    {LAbsent, LObj(<<>>),
     LObj(<<Entry("nameServers", LArr(<<LStr("8.8.8.8")>>))>>),
     LObj(<<Entry("search", LArr(<<LStr("f5.com")>>))>>),
     LObj(<<Entry("nameServers", LArr(<<LStr("8.8.8.8")>>)), Entry("search", LArr(<<LStr("f5.com")>>))>>)}
SysNTP ==
    {LAbsent,
     LObj(<<Entry("timezone", LStr("UTC"))>>),
     LObj(<<Entry("servers", LArr(<<LStr("0.pool.ntp.org"), LStr("1.pool.ntp.org")>>)),
            Entry("timezone", LStr("UTC"))>>)}
SysUser ==
    {LAbsent,
     LObj(<<Entry("root", LObj(<<Entry("userType", LStr("root")), Entry("newPassword", LStr("n")),
                                 Entry("oldPassword", LStr("o"))>>)),
            Entry("admin", LObj(<<Entry("userType", LStr("regular")), Entry("password", LStr("p"))>>)),
            Entry("guest", LObj(<<Entry("userType", LStr("root"))>>))>>)}
SysLicense ==
    {LAbsent,
     LObj(<<Entry("licenseType", LStr("regKey")), Entry("regKey", LStr("AAAAA-BBBBB"))>>),
     LObj(<<Entry("licenseType", LStr("licensePool")), Entry("bigIqHost", LStr("bigiq")),
            Entry("licensePool", LStr("pool1"))>>),
     LObj(<<Entry("licenseType", LStr("licensePool")), Entry("licensePool", LStr("pool1")),
            Entry("revokeFrom", LStr("pool0")), Entry("reachable", LBool(TRUE))>>),
     LObj(<<Entry("licenseType", LStr("licensePool")),
            Entry("revokeFrom", LObj(<<Entry("licensePool", LStr("pool0")),
                                       Entry("bigIqHost", LStr("bigiq0"))>>))>>),
     LObj(<<Entry("licenseType", LStr("licensePool")), Entry("licensePool", LStr("")),
            Entry("revokeFrom", LStr("pool0"))>>)}

\* a Common with the classes given
CommonOf(db, dns, ntp, hostname, user, license) ==
    LObj(<<Entry("Common",
                 LObj(Members(<<Entry("DbVariables", db), Entry("DNS", dns), Entry("NTP", ntp),
                                Entry("hostname", hostname), Entry("User", user),
                                Entry("License", license)>>)))>>)

\* a declaration has no Common, or a Common with DNS and NTP, or with a
\* License, or with all the system classes
SystemDeclarations ==
    {LObj(<<>>)}
    \cup {CommonOf(LAbsent, dns, ntp, LAbsent, LAbsent, LAbsent) : dns \in SysDNS, ntp \in SysNTP}
    \cup {CommonOf(LAbsent, LAbsent, LAbsent, LAbsent, LAbsent, license) : license \in SysLicense}
    \cup {CommonOf(db, dns, ntp, LStr("bigip1.example.com"), user, license) :
              db \in SysDbVariables \ {LAbsent}, dns \in {d \in SysDNS : Len(d.e) = 2},
              ntp \in {n \in SysNTP : Len(n.e) = 2}, user \in SysUser \ {LAbsent},
              license \in SysLicense \ {LAbsent}}

\* what the device holds as its dhcp configuration
SystemDhcp ==
    {[NoAnswer EXCEPT !.present = TRUE],
     [NoAnswer EXCEPT !.present = TRUE, !.hasRequestOptions = TRUE, !.requestOptions = <<"subnet-mask">>],
     [NoAnswer EXCEPT !.present = TRUE, !.hasRequestOptions = TRUE,
                      !.requestOptions = <<"subnet-mask", "domain-name-servers", "domain-name", "ntp-servers">>],
     [NoAnswer EXCEPT !.present = TRUE, !.hasRequestOptions = TRUE,
                      !.requestOptions = <<"domain-name", "host-name", "ntp-servers">>]}

-----------------------------------------------------------------------------
(* The caller of process: it builds a SystemHandler over a declaration and  *)
(* a device and calls process once.  The calls of the device then settle,   *)
(* each fulfilled or rejected.                                              *)

SystemInit ==
    /\ \E decl \in SystemDeclarations :
       \E d \in {ParseJSON(<<>>, decl)} :
           /\ heap = d.h
           /\ \E dhcp \in SystemDhcp :
                  system = [NoSystem EXCEPT !.declaration = d.v, !.status = "idle",
                                            !.bigIp = [user |-> "admin", dhcp |-> dhcp]]
    /\ pc = "system"
    /\ desired = LAbsent
    /\ current = LAbsent
    /\ toDeclaration = Undef
    /\ fromDeclaration = Undef
    /\ run1 = NoRun
    /\ run2 = NoRun
    /\ declText = LAbsent
    /\ userDeclaration = Undef
    /\ parser = NoParser
    /\ parses = <<>>
    /\ configManager = [configItems |-> Undef, configId |-> Undef]
    /\ bigIp = [machineId |-> "", db |-> "", flag |-> "", prefix |-> "", avr |-> ""]
    /\ taskState = Undef
    /\ doState = [originalConfig |-> <<>>, copies |-> FALSE]
    /\ reads = <<>>
    /\ get = NoGet
    /\ fetched = 0
    /\ auth = NoAuth
    /\ other = NoOther

\* process()
CallProcess ==
    /\ pc = "system"
    /\ system.status = "idle"
    /\ system' = Run(heap, "process", system, 0)
    /\ UNCHANGED <<heap, pc, diffVars, parseVars, fetchVars>>

\* the device answers a call; the handler chained to the call runs
CallFulfilled ==
    /\ pc = "system"
    /\ \E i \in 1..Len(system.calls) :
           /\ system.calls[i].status = "pending"
           /\ \E answer \in DeviceAnswers(system.bigIp, system.calls[i]) :
                  system' = Run(heap, system.calls[i].then,
                                [system EXCEPT !.calls[i].status = "fulfilled",
                                               !.calls[i].answer = answer,
                                               !.bigIp = Written(@, system.calls[i])],
                                i)
    /\ UNCHANGED <<heap, pc, diffVars, parseVars, fetchVars>>

\* a call fails
CallRejected ==
    /\ pc = "system"
    /\ \E i \in 1..Len(system.calls) :
           /\ system.calls[i].status = "pending"
           /\ system' = Rejected(heap, [system EXCEPT !.calls[i].status = "rejected"], i)
    /\ UNCHANGED <<heap, pc, diffVars, parseVars, fetchVars>>

SystemNext == CallProcess \/ CallFulfilled \/ CallRejected

SystemSpec == SystemInit /\ [][SystemNext]_vars

-----------------------------------------------------------------------------
(* Properties of the reconciler.                                            *)

TruthSet == {classesOfTruth[i] : i \in 1..Len(classesOfTruth)}
InSeq(x, seq) == \E i \in 1..Len(seq) : seq[i] = x

\* the Common section of the desired and of the current document, by content
DesiredCommon == CGet(Canon(desired), "Common")
CurrentCommon == CGet(Canon(current), "Common")
\* the Common section of the document a run resolved with, by content
MergedCommon(run) == CGet(Canon(run.merged), "Common")

\* C1 (as claimed): after process(desired, current), every class of
\* desired.Common that is not a class of truth is in merged.Common with a
\* value deep-equal to desired's, whatever kind of value it holds.
C1_PassThroughVerbatim ==
    pc = "processed" =>
        \A cls \in DOMAIN DesiredCommon.f \ TruthSet :
            CGet(MergedCommon(run1), cls) = CGet(DesiredCommon, cls)

\* C1: what the code does hold to: strings and plain objects pass through.
C1_PassThroughStringsAndObjects ==
    pc = "processed" =>
        \A cls \in DOMAIN DesiredCommon.f \ TruthSet :
            CGet(DesiredCommon, cls).t \in {"string", "obj"} =>
                CGet(MergedCommon(run1), cls) = CGet(DesiredCommon, cls)

\* C2 (as claimed): every class of truth whose subtree differs between
\* desired and current (a changed field, a class in only one of the two, a
\* current document without Common) has, in merged, desired's whole subtree.
C2_DifferingClassConverges ==
    pc = "processed" =>
        \A cls \in TruthSet :
            CGet(DesiredCommon, cls) # CGet(CurrentCommon, cls) =>
                CGet(MergedCommon(run1), cls) = CGet(DesiredCommon, cls)

\* C3 (as claimed): a class of truth whose desired and current subtrees are
\* deep-equal is in merged, deep-equal to both.
C3_UnchangedClassKept ==
    pc = "processed" =>
        \A cls \in TruthSet :
            (CHas(DesiredCommon, cls) /\ CGet(DesiredCommon, cls) = CGet(CurrentCommon, cls)) =>
                (CHas(MergedCommon(run1), cls)
                 /\ CGet(MergedCommon(run1), cls) = CGet(DesiredCommon, cls))

\* C3 (amended): a class of truth whose desired and current subtrees are
\* deep-equal is not marked as updated and is left out of merged: only
\* changed classes of truth are copied.
C3_UnchangedClassOmitted ==
    pc = "processed" =>
        \A cls \in TruthSet :
            (CHas(DesiredCommon, cls) /\ CGet(DesiredCommon, cls) = CGet(CurrentCommon, cls)) =>
                (~InSeq(cls, run1.updatedPaths) /\ ~CHas(MergedCommon(run1), cls))

\* C3 witness: hostname is the same in both documents, DNS differs, and the
\* merged document carries DNS.
C3_Witness ==
    /\ pc = "processed"
    /\ CHas(DesiredCommon, "hostname")
    /\ CGet(DesiredCommon, "hostname") = CGet(CurrentCommon, "hostname")
    /\ CGet(DesiredCommon, "DNS") # CGet(CurrentCommon, "DNS")
    /\ CHas(MergedCommon(run1), "DNS")

\* C4 (as claimed): with M = process(D, C), process(D, M) marks no class.
C4_SecondRunMarksNothing ==
    pc = "reprocessed" => run2.updatedPaths = <<>>

\* C4 (amended): with M = process(D, C), process(D, M) marks exactly the
\* classes of truth whose subtree in M is not deep-equal to D's; so a class
\* the first run copied faithfully is not marked again, and a class of D
\* that the first run found unchanged, and left out of M, is marked.
C4_SecondRunMarksWhatMLacks ==
    pc = "reprocessed" =>
        /\ \A cls \in TruthSet :
              InSeq(cls, run2.updatedPaths)
                  <=> CGet(MergedCommon(run1), cls) # CGet(DesiredCommon, cls)
        /\ \A cls \in TruthSet :
              (CHas(DesiredCommon, cls) /\ CGet(DesiredCommon, cls) = CGet(CurrentCommon, cls))
                  => InSeq(cls, run2.updatedPaths)
        /\ \A i \in 1..Len(run2.updatedPaths) : run2.updatedPaths[i] \in TruthSet

\* C4 witness: the second run marks the class the first run left out and
\* does not mark the class the first run converged.
C4_Witness ==
    /\ pc = "reprocessed"
    /\ run1.updatedPaths = <<"DNS">>
    /\ run2.updatedPaths = <<"hostname">>

\* C5: process leaves both argument documents as they were: after the call
\* (and after a second call that is given the first call's result as its
\* current document) each argument serializes to the text it had before.
C5_InputsNotMutated ==
    /\ pc \in {"processed", "threw", "reprocessed"} =>
          /\ StringifyJSON(heap, toDeclaration) = desired
          /\ StringifyJSON(heap, fromDeclaration) = current
    /\ pc = "reprocessed" => StringifyJSON(heap, run1.final) = run1.merged

\* C5 witness: differences were applied onto the working copy of current,
\* which no longer has the content of the current document.
C5_Witness ==
    /\ pc = "processed"
    /\ run1.updatedPaths # <<>>
    /\ Content(heap, run1.from) # Canon(current)
    /\ Content(heap, run1.from) = Canon(desired)

-----------------------------------------------------------------------------
(* Properties of the normalizer.  They are stated on the text of the        *)
(* caller's declaration just before a parse() call (before) and on the text *)
(* of the document the call returned (text).                                *)

\* ToBoolean of a scalar content, and the key a content is converted to
CTruthy(c) ==
    CASE c.t \in {"undefined", "null"} -> FALSE
      [] c.t = "boolean" -> c.r = 1
      [] c.t = "number" -> c.r # 0
      [] c.t = "string" -> c.s # ""
      [] OTHER -> TRUE
CToKey(c) ==
    CASE c.t = "string" -> c.s
      [] c.t = "number" -> ToString(c.r)
      [] c.t = "boolean" -> IF c.r = 1 THEN "true" ELSE "false"
      [] c.t = "obj" -> "[object Object]"
      [] OTHER -> c.t

\* the keys that are not structural (schemaVersion, class)
Interesting(keys) == keys \ {"schemaVersion", "class"}
\* a property that is a typed sub-instance: an object bearing a discriminator
CTyped(p) == p.t = "obj" /\ CTruthy(CGet(p, "class"))
\* the instance name the naming rule gives key k of container con named c
RuleName(con, c, k) == IF CGet(con, "class") = CStr("System") THEN k ELSE c \o "_" \o k
\* the tenants of a declaration: its members of class Tenant
CTenants(decl) == {t \in Interesting(CKeys(decl)) : CGet(CGet(decl, t), "class") = CStr("Tenant")}
\* container c of tenant t of a declaration
ConOf(decl, t, c) == CGet(CGet(decl, t), c)
\* the properties of a declaration: <<tenant, container, key>> for every
\* key of interest of every member of interest of every tenant
PropsOf(decl) ==
    UNION {UNION {{<<t, c, k>> : k \in Interesting(CKeys(ConOf(decl, t, c)))} :
                    c \in Interesting(CKeys(CGet(decl, t)))} :
             t \in CTenants(decl)}
PropOf(decl, x) == CGet(ConOf(decl, x[1], x[2]), x[3])
\* the place of the normalized document where container con of tenant t files
DomainBag(out, con, t) == CGet(CGet(out, CToKey(CGet(con, "class"))), t)
\* a content holds a class key, itself or in an object or array below it
RECURSIVE HasClassKey(_)
HasClassKey(c) == CHas(c, "class") \/ \E k \in CKeys(c) : c.t \in {"obj", "arr"} /\ HasClassKey(c.f[k])

ReturnedParses == {i \in 1..Len(parses) : ~parses[i].threw}

\* C6 (as claimed): every parse() of the same declaration object, on the
\* same parser or on a new one, returns the same normalized document.
C6_ParsesAgree ==
    \A i, j \in 1..Len(parses) :
        /\ parses[i].threw = parses[j].threw
        /\ Canon(parses[i].text) = Canon(parses[j].text)

\* C7 (as claimed): when containers A and B of a tenant, of any domain, each
\* hold a typed sub-instance under key x, the normalized document has an
\* instance A_x and an instance B_x, each with its own sub-instance's content.
C7_BothInstancesAnyDomain ==
    \A i \in ReturnedParses :
        LET before == Canon(parses[i].before)
            out == Canon(parses[i].text)
        IN  \A t \in CTenants(before) :
                LET a == CGet(CGet(before, t), "A")
                    b == CGet(CGet(before, t), "B")
                    ax == CGet(a, "x")
                    bx == CGet(b, "x")
                IN  (CTyped(ax) /\ CTyped(bx)) =>
                        /\ CHas(CGet(DomainBag(out, a, t), CToKey(CGet(ax, "class"))), "A_x")
                        /\ CHas(CGet(DomainBag(out, b, t), CToKey(CGet(bx, "class"))), "B_x")

\* the content a typed sub-instance is filed with: itself less its discriminator
Instance(p) == [p EXCEPT !.f = [k \in DOMAIN p.f \ {"class"} |-> p.f[k]]]

\* C7 (amended): when containers A and B of a tenant, neither of domain
\* System, each hold a typed sub-instance under key x, the normalized
\* document has the two distinct instances A_x and B_x, each in the bucket of
\* its own domain and class with its own content; a container of domain
\* System files its sub-instance under the raw key x instead.
C7_BothInstancesOutsideSystem ==
    \A i \in ReturnedParses :
        LET before == Canon(parses[i].before)
            out == Canon(parses[i].text)
        IN  \A t \in CTenants(before) :
                LET a == CGet(CGet(before, t), "A")
                    b == CGet(CGet(before, t), "B")
                    ax == CGet(a, "x")
                    bx == CGet(b, "x")
                    abucket == CGet(DomainBag(out, a, t), CToKey(CGet(ax, "class")))
                    bbucket == CGet(DomainBag(out, b, t), CToKey(CGet(bx, "class")))
                IN  (CTyped(ax) /\ CTyped(bx)) =>
                        /\ CGet(a, "class") # CStr("System") =>
                              CGet(abucket, "A_x") = Instance(ax)
                        /\ CGet(b, "class") # CStr("System") =>
                              CGet(bbucket, "B_x") = Instance(bx)
                        /\ CGet(a, "class") = CStr("System") =>
                              (CHas(abucket, "x") /\ ~CHas(abucket, "A_x"))
                        /\ CGet(b, "class") = CStr("System") =>
                              (CGet(bbucket, "x") = Instance(bx) /\ ~CHas(bbucket, "B_x"))

\* C7 witness: two Network containers filed DNS instances of different
\* content under A_x and B_x of the same bucket.
C7_Witness ==
    \E i \in ReturnedParses :
        LET bucket == CGet(CGet(CGet(Canon(parses[i].text), "Network"), "Common"), "DNS")
        IN  /\ CHas(bucket, "A_x")
            /\ CHas(bucket, "B_x")
            /\ CGet(bucket, "A_x") # CGet(bucket, "B_x")

\* C8: in every document parse() returns, key k of container c is filed
\* under c_k, or under k when the container's class is System: a typed
\* sub-instance in the bucket of its class, any other property directly; and
\* the document holds no name but these.
C8_NamingRule ==
    \A i \in ReturnedParses :
        LET before == Canon(parses[i].before)
            out == Canon(parses[i].text)
            Name(x) == RuleName(ConOf(before, x[1], x[2]), x[2], x[3])
        IN  /\ \A x \in PropsOf(before) :
                  LET bag == DomainBag(out, ConOf(before, x[1], x[2]), x[1])
                  IN  IF CTyped(PropOf(before, x))
                      THEN CHas(CGet(bag, CToKey(CGet(PropOf(before, x), "class"))), Name(x))
                      ELSE CHas(bag, Name(x))
            /\ \A d \in CKeys(out) : \A t \in CKeys(CGet(out, d)) :
                  \A n \in CKeys(CGet(CGet(out, d), t)) :
                      LET Filed == {x \in PropsOf(before) :
                                      /\ x[1] = t
                                      /\ CToKey(CGet(ConOf(before, t, x[2]), "class")) = d}
                          Plain == {Name(x) : x \in {y \in Filed : ~CTyped(PropOf(before, y))}}
                          OfClass == {Name(x) :
                                        x \in {y \in Filed :
                                                 /\ CTyped(PropOf(before, y))
                                                 /\ CToKey(CGet(PropOf(before, y), "class")) = n}}
                      IN  /\ t \in CTenants(before)
                          /\ n \in Plain \/ OfClass # {}
                          /\ n \notin Plain => CKeys(CGet(CGet(CGet(out, d), t), n)) = OfClass

\* C8 witness: one document with a raw name from a System container and a
\* qualified name from a container of another domain.
C8_Witness ==
    \E i \in ReturnedParses :
        LET out == Canon(parses[i].text)
        IN  /\ CHas(CGet(CGet(CGet(out, "System"), "Common"), "DNS"), "x")
            /\ CHas(CGet(CGet(out, "System"), "Common"), "y")
            /\ CHas(CGet(CGet(CGet(out, "Network"), "Common"), "DNS"), "B_x")

\* the instance bags of a returned document: where the typed sub-instances
\* of the declaration were filed
InstanceBags(i) ==
    LET before == Canon(parses[i].before)
        out == Canon(parses[i].text)
    IN  {CGet(CGet(DomainBag(out, ConOf(before, x[1], x[2]), x[1]),
                   CToKey(CGet(PropOf(before, x), "class"))),
              RuleName(ConOf(before, x[1], x[2]), x[2], x[3])) :
            x \in {y \in PropsOf(before) : CTyped(PropOf(before, y))}}

\* C9 (as claimed): no instance property bag of a returned document holds a
\* class key at any depth.
C9_NoDiscriminatorAtAnyDepth ==
    \A i \in ReturnedParses : \A bag \in InstanceBags(i) : ~HasClassKey(bag)

\* C9 (amended): no instance property bag of a returned document holds a
\* class key of its own: the discriminator of the sub-instance itself is
\* consumed; objects nested in the bag keep theirs.
C9_NoOwnDiscriminator ==
    \A i \in ReturnedParses : \A bag \in InstanceBags(i) : bag.t = "obj" /\ ~CHas(bag, "class")

\* C9 witness: a filed VLAN instance without a class key of its own whose
\* nested interface still carries one.
C9_Witness ==
    \E i \in ReturnedParses : \E bag \in InstanceBags(i) :
        /\ ~CHas(bag, "class")
        /\ CHas(bag, "tag")
        /\ CGet(CGet(bag, "1.1"), "class") = CStr("Interface")

\* C10 (as claimed): when a container of a tenant is no object (a scalar or
\* null), or a property of a container is null, parse() throws.
C10_MalformedThrows ==
    \A i \in 1..Len(parses) :
        LET before == Canon(parses[i].before)
        IN  (\E t \in CTenants(before) : \E c \in Interesting(CKeys(CGet(before, t))) :
                \/ CGet(CGet(before, t), c).t \notin {"obj", "arr"}
                \/ \E k \in Interesting(CKeys(CGet(CGet(before, t), c))) :
                      CGet(CGet(CGet(before, t), c), k).t = "null")
            => parses[i].threw

\* C10: what the code does hold to: a null container, a null property and a
\* null top-level member make parse() throw, and a parse() that throws
\* returns nothing.
C10_NullThrows ==
    \A i \in 1..Len(parses) :
        LET before == Canon(parses[i].before)
        IN  /\ ((\E m \in Interesting(CKeys(before)) : CGet(before, m).t = "null")
                \/ (\E t \in CTenants(before) : \E c \in Interesting(CKeys(CGet(before, t))) :
                      \/ CGet(CGet(before, t), c).t = "null"
                      \/ \E k \in Interesting(CKeys(CGet(CGet(before, t), c))) :
                            CGet(CGet(CGet(before, t), c), k).t = "null"))
               <=> parses[i].threw
            /\ parses[i].threw => (parses[i].parsed = Undef /\ parses[i].tenants = <<>>)



\* C17 (as claimed): after new DeclarationParser(d).parse() returns, the
\* caller's declaration d is deep-equal to what it was before the call, and no
\* object of the returned document is an object of d.
C17_OutputOwnedInputUntouched ==
    (Len(parses) = 1 /\ ~parses[1].threw) =>
        /\ Canon(parses[1].after) = Canon(parses[1].before)
        /\ Reach(heap, parses[1].parsed) \cap Reach(heap, userDeclaration) = {}


-----------------------------------------------------------------------------
(* Properties of the fetcher.  They are stated where a get has just         *)
(* settled (pc is "resolved" or "rejected"): get.before holds the state of  *)
(* the task and the store as they were when get was called.                 *)

\* the original config that was stored for the device before the get, or the
\* one that the state of the task carried when none was stored
BaselineBefore ==
    IF IndexOfKey(get.before.stored, configManager.configId, 1) # 0
    THEN Canon(get.before.stored[IndexOfKey(get.before.stored, configManager.configId, 1)].val)
    ELSE CGet(Canon(get.before.state), "originalConfig")

\* what ConfigResponse.getData answers for the device after the get
SnapshotAfter == Content(heap, getData(doState.originalConfig, configManager.configId))

DbVariablesOf(c) == CGet(CGet(c, "Common"), "DbVariables")

CurrentDbVariables == DbVariablesOf(Content(heap, GetProp(heap, taskState, "currentConfig")))

\* C11 (as claimed): after a successful get, every db variable of the current
\* config that the original config lacked is in the original config with the
\* current value, and every db variable that the original config held keeps
\* the value it had.
C11_BackfillNeverOverwrites ==
    pc = "resolved" =>
        \A K \in CKeys(CurrentDbVariables) :
            IF CHas(DbVariablesOf(BaselineBefore), K)
            THEN CGet(DbVariablesOf(SnapshotAfter), K) = CGet(DbVariablesOf(BaselineBefore), K)
            ELSE CGet(DbVariablesOf(SnapshotAfter), K) = CGet(CurrentDbVariables, K)

\* C11, for the values that JavaScript takes as true: a db variable that the
\* original config held with such a value keeps it, and a lacking one is added.
C11_BackfillKeepsTruthyValues ==
    pc = "resolved" =>
        \A K \in CKeys(CurrentDbVariables) :
            IF CHas(DbVariablesOf(BaselineBefore), K)
            THEN CTruthy(CGet(DbVariablesOf(BaselineBefore), K)) =>
                     CGet(DbVariablesOf(SnapshotAfter), K) = CGet(DbVariablesOf(BaselineBefore), K)
            ELSE CGet(DbVariablesOf(SnapshotAfter), K) = CGet(CurrentDbVariables, K)

\* a content without its member key
CWithout(c, key) ==
    IF c.t \in {"obj", "arr"} THEN [c EXCEPT !.f = [k \in DOMAIN c.f \ {key} |-> c.f[k]]] ELSE c

\* an original config without its db variables
WithoutDbVariables(c) ==
    IF CHas(c, "Common")
    THEN [c EXCEPT !.f = [k \in DOMAIN c.f |->
                             IF k = "Common" THEN CWithout(c.f[k], "DbVariables") ELSE c.f[k]]]
    ELSE c

\* the original config stored under the i-th id when get was called, and what
\* getData answers for that id now
StoredBefore(i) == Canon(get.before.stored[i].val)
StoredNow(i) == Content(heap, getData(doState.originalConfig, get.before.stored[i].key))

\* C12 (as claimed): after a successful get, every original config that was
\* stored when get was called is still what getData answers for its id, but
\* for db variables it did not hold.
C12_SnapshotCapturedOnce ==
    pc = "resolved" =>
        \A i \in 1..Len(get.before.stored) :
            /\ WithoutDbVariables(StoredNow(i)) = WithoutDbVariables(StoredBefore(i))
            /\ \A K \in CKeys(DbVariablesOf(StoredBefore(i))) :
                   CGet(DbVariablesOf(StoredNow(i)), K) = CGet(DbVariablesOf(StoredBefore(i)), K)

\* C12, but for the db variables that the original config holds with a value
\* that JavaScript takes as false
C12_SnapshotKeptButFalsyDbVariables ==
    pc = "resolved" =>
        \A i \in 1..Len(get.before.stored) :
            /\ WithoutDbVariables(StoredNow(i)) = WithoutDbVariables(StoredBefore(i))
            /\ \A K \in CKeys(DbVariablesOf(StoredBefore(i))) :
                   CTruthy(CGet(DbVariablesOf(StoredBefore(i)), K)) =>
                       CGet(DbVariablesOf(StoredNow(i)), K) = CGet(DbVariablesOf(StoredBefore(i)), K)

\* state.currentConfig and state.originalConfig are what they were when get
\* was called, and so is the state of the task as a whole
StateKept ==
    /\ GetProp(heap, taskState, "currentConfig") = get.before.currentConfig
    /\ GetProp(heap, taskState, "originalConfig") = get.before.originalConfig
    /\ StringifyJSON(heap, taskState) = get.before.state

\* the store holds the documents it held when get was called, unchanged, and
\* get has not written to it
StoreKept ==
    /\ doState.originalConfig = get.before.doState
    /\ StoredTexts(heap, doState.originalConfig) = get.before.stored
    /\ \A i \in 1..Len(get.log) : get.log[i].op # "set"

\* C13: once a read of a get is rejected, the get does not resolve: it rejects
\* with the error of that read, state.currentConfig and state.originalConfig
\* keep their values and the store is not written.
C13_ReadFailureAborts ==
    (\E i \in 1..Len(reads) : reads[i].status = "rejected") =>
        /\ pc # "resolved"
        /\ pc = "rejected" => /\ get.error.kind = "read"
                              /\ reads[get.error.read].status = "rejected"
        /\ StateKept
        /\ StoreKept

\* a get over a device with a stored original config has rejected with the
\* error of a reference read, the config items being read and handled
C13_Witness ==
    /\ pc = "rejected"
    /\ get.error.kind = "read"
    /\ reads[get.error.read].kind = "references"
    /\ get.before.stored # <<>>
    /\ CKeys(Content(heap, get.currentConfig)) # {}

\* the reads of a stage of the running get
ReadsOf(kind) == SelectSeq(reads, LAMBDA read : read.kind = kind)

Completed(read) == read.status = "fulfilled"

\* C14: a reference read is in flight or settled only if every read of a
\* config item has completed, and a read of a config item only if the
\* provisioning, device info and cm device reads have completed.
C14_StagesDoNotInterleave ==
    /\ ReadsOf("references") # <<>> =>
           \A i \in 1..Len(ReadsOf("items")) : Completed(ReadsOf("items")[i])
    /\ ReadsOf("items") # <<>> =>
           \A kind \in {"provision", "deviceInfo", "cmDevice"} :
               Len(ReadsOf(kind)) = 1 /\ Completed(ReadsOf(kind)[1])
    /\ ReadsOf("cmDevice") # <<>> => Len(ReadsOf("deviceInfo")) = 1 /\ Completed(ReadsOf("deviceInfo")[1])
    /\ ReadsOf("deviceInfo") # <<>> => Len(ReadsOf("provision")) = 1 /\ Completed(ReadsOf("provision")[1])

\* two reference reads are in flight after two config items were read
C14_Witness ==
    /\ pc = "references"
    /\ Len(ReadsOf("references")) = 2
    /\ \A i \in 1..2 : ReadsOf("references")[i].status = "pending"
    /\ Len(ReadsOf("items")) = 2

\* the accesses of the get to the store, in order
LogOps == [i \in 1..Len(get.log) |-> get.log[i].op]

AllReadsCompleted == \A i \in 1..Len(reads) : Completed(reads[i])

\* C15 (as claimed): a get that resolves has read the store once, before any
\* read of the device, and has written it at most once, after all of them.
C15_ReadAtStartWrittenOnceAtEnd ==
    pc = "resolved" =>
        /\ Cardinality({i \in 1..Len(get.log) : get.log[i].op = "get"}) = 1
        /\ Cardinality({i \in 1..Len(get.log) : get.log[i].op = "set"}) <= 1
        /\ \A i \in 1..Len(get.log) :
               IF get.log[i].op = "get" THEN get.log[i].reads = 0
               ELSE get.log[i].reads = Len(reads)

\* C15 (amended): get accesses the store only in its last handler, when all
\* reads of the device have completed.  A get that resolves has read it once
\* and then written it once when the state carried no original config; read
\* it twice and then written it once when the state carried one and one was
\* stored; and read, written, read and written it when the state carried one
\* and none was stored.
C15_StoreAccessedInLastHandler ==
    /\ get.log # <<>> =>
           /\ AllReadsCompleted
           /\ \A i \in 1..Len(get.log) : get.log[i].reads = Len(reads)
    /\ pc = "resolved" =>
           LogOps = IF ~Truthy(get.before.originalConfig) THEN <<"get", "set">>
                    ELSE IF IndexOfKey(get.before.stored, configManager.configId, 1) # 0
                    THEN <<"get", "get", "set">>
                    ELSE <<"get", "set", "get", "set">>

\* a get has adopted the original config of the state of its task: it has
\* written the store twice
C15_Witness ==
    /\ pc = "resolved"
    /\ LogOps = <<"get", "set", "get", "set">>
    /\ Len(reads) > 3

\* what the device answered to the i-th reference read of the get
RawReference(i) ==
    Canon(Resource(bigIp, [kind |-> "references", path |-> get.referenceInfo[i].path]))

\* the instance of currentConfig that owns the i-th reference: the one put
\* under the name of its raw instance, without /Common/
OwningInstance(i) ==
    CGet(CGet(Content(heap, get.currentConfig), get.referenceInfo[i].schemaClass.s),
         IF StartsWith(get.referenceInfo[i].name.s, "/Common/")
         THEN Substring(get.referenceInfo[i].name.s, Len("/Common/"))
         ELSE get.referenceInfo[i].name.s)

\* the i-th reference is set on its instance: property foo holds the items
\* read for fooReference, their truth-valued properties being booleans, and
\* the instance has no fooReference
Spliced(i) ==
    LET foo == CGet(OwningInstance(i), get.referenceInfo[i].property)
        properties == Content(heap, get.referenceInfo[i].properties)
    IN  /\ foo.t = "arr"
        /\ CKeys(foo) = CKeys(RawReference(i))
        /\ \A k \in CKeys(RawReference(i)) :
               /\ CGet(CGet(foo, k), "name") = CGet(CGet(RawReference(i), k), "name")
               /\ \A p \in CKeys(properties) :
                      CHas(CGet(properties, p), "truth") =>
                          LET id == CGet(CGet(properties, p), "id").s
                          IN  /\ CGet(CGet(foo, k), id).t = "boolean"
                              /\ CGet(CGet(foo, k), id).r = 1
                                     <=> CGet(CGet(RawReference(i), k), id)
                                             = CGet(CGet(properties, p), "truth")
        /\ ~CHas(OwningInstance(i), get.referenceInfo[i].property \o "Reference")

\* a get has settled without a read failing, and raw instances carried links
\* of references
ReferencesWereRead ==
    /\ pc \in {"resolved", "rejected"}
    /\ AllReadsCompleted
    /\ get.referenceInfo # <<>>

\* C16 (as claimed): when raw instances carry the link of a reference and no
\* read fails, get resolves and every such instance holds the reference
\* items under the property name without Reference.
C16_ReferenceSplice ==
    ReferencesWereRead => pc = "resolved" /\ \A i \in 1..Len(get.referenceInfo) : Spliced(i)

\* C16, for raw instances whose name does not start with /Common/
C16_ReferenceSpliceOfPlainNames ==
    (/\ ReferencesWereRead
     /\ \A i \in 1..Len(get.referenceInfo) : ~StartsWith(get.referenceInfo[i].name.s, "/Common/"))
        => pc = "resolved" /\ \A i \in 1..Len(get.referenceInfo) : Spliced(i)

\* the answers of the device to reads, put on heap h one after the other
RECURSIVE Answers(_, _, _, _)
Answers(h, asked, i, acc) ==
    IF i > Len(asked) THEN [h |-> h, v |-> acc]
    ELSE IF asked[i].status = "fulfilled" /\ asked[i].path = ""
    THEN Answers(h, asked, i + 1, Append(acc, asked[i].value))
    ELSE LET Next(p) == Answers(p.h, asked, i + 1, Append(acc, p.v))
         IN  Next(ParseJSON(h, Resource(bigIp, asked[i])))

\* The current config that the config items (a document), the answers of the
\* device, the provisioned modules, the token map and the db variables of
\* interest determine, whatever the order in which the reads complete: each
\* answer is handled with the config item it was asked for, and each
\* reference with the instance it was asked for.
ConfigOf(items) ==
    LET Built(rr) == IF rr.threw THEN CAbsent ELSE Content(rr.h, rr.v)
        Referenced(r, currentConfig, answers) ==
            Built(ReferencesResults(answers.h, answers.v, 1, r.refs, currentConfig))
        Handled(r, currentConfig) ==
            IF r.threw THEN CAbsent
            ELSE Referenced(r, currentConfig,
                            Answers(r.h, [i \in 1..Len(r.refs) |-> Read("references", r.refs[i].path)],
                                    1, <<>>))
        Answered(c, n, answers) ==
            Handled(Results(answers.h, <<>>, answers.v, 1, c.v, n.v, get.dbVarsOfInterest), n.v)
        Asked(c, n) ==
            Answered(c, n, Answers(n.h, ItemReads(n.h, c.v, get.provisionedModules, get.tokenMap),
                                   1, <<>>))
        Loaded(c) == Asked(c, NewNode(c.h, "obj"))
    IN  Loaded(ParseJSON(<<>>, items))

\* C18: the current config of a get that resolves is the one that the config
\* items and the answers of the device determine, in whatever order the
\* reads of the config items and of the references completed.
C18_CompletionOrderIrrelevant ==
    pc = "resolved" =>
        /\ CGet(Content(heap, GetProp(heap, taskState, "currentConfig")), "Common")
               = ConfigOf(StringifyJSON(heap, configManager.configItems))
        /\ Content(heap, get.currentConfig) = ConfigOf(StringifyJSON(heap, configManager.configItems))

\* a get has resolved whose second config item was answered before its first
\* and whose second reference before its first
C18_Witness ==
    /\ pc = "resolved"
    /\ Len(ReadsOf("items")) = 2
    /\ ReadsOf("items")[2].settled < ReadsOf("items")[1].settled
    /\ ReadsOf("items")[2].settled > 0
    /\ Len(ReadsOf("references")) = 2
    /\ ReadsOf("references")[2].settled < ReadsOf("references")[1].settled

\* the config items (a document) in another order
Reordered(items, p) == LArr([i \in 1..Len(items.e) |-> items.e[p[i]].val])

\* C19 (as claimed): the current config of a get that resolves is the one
\* that every reordering of the config items determines for the same answers
\* of the device.
C19_DescriptorOrderIrrelevant ==
    pc = "resolved" =>
        \A p \in Permutations(1..Len(StringifyJSON(heap, configManager.configItems).e)) :
            ConfigOf(Reordered(StringifyJSON(heap, configManager.configItems), p))
                = Content(heap, get.currentConfig)

\* C19, for config items no two of which have the same schemaClass
C19_OrderIrrelevantForDistinctClasses ==
    (/\ pc = "resolved"
     /\ \A i, j \in 1..Len(StringifyJSON(heap, configManager.configItems).e) :
            i # j => CGet(Canon(StringifyJSON(heap, configManager.configItems).e[i].val), "schemaClass")
                         # CGet(Canon(StringifyJSON(heap, configManager.configItems).e[j].val), "schemaClass"))
        => \A p \in Permutations(1..Len(StringifyJSON(heap, configManager.configItems).e)) :
               ConfigOf(Reordered(StringifyJSON(heap, configManager.configItems), p))
                   = Content(heap, get.currentConfig)

\* an original config was stored for the device when get was called
WasStored == IndexOfKey(get.before.stored, configManager.configId, 1) # 0

\* the state of the task carried an original config when get was called
CarriedOriginalConfig == Truthy(get.before.originalConfig)

\* C20: when a get resolves, the original config stored for the device is the
\* stored one if one was stored, else the one the state carried if it carried
\* one, else the current config just built (in each case with the db
\* variables it lacked filled in), and state.originalConfig is that document.
C20_BaselineSelection ==
    pc = "resolved" =>
        /\ WasStored =>
               /\ WithoutDbVariables(SnapshotAfter) = WithoutDbVariables(BaselineBefore)
               /\ ~doState.copies =>
                      getData(doState.originalConfig, configManager.configId)
                          = getOriginalConfigByConfigId(get.before.doState, configManager.configId)
        /\ (~WasStored /\ CarriedOriginalConfig) =>
               /\ WithoutDbVariables(SnapshotAfter)
                      = WithoutDbVariables(CGet(Canon(get.before.state), "originalConfig"))
               /\ ~doState.copies =>
                      getData(doState.originalConfig, configManager.configId) = get.before.originalConfig
        /\ (~WasStored /\ ~CarriedOriginalConfig) =>
               /\ SnapshotAfter = Content(heap, GetProp(heap, taskState, "currentConfig"))
               /\ CGet(SnapshotAfter, "Common") = Content(heap, get.currentConfig)
        /\ Content(heap, GetProp(heap, taskState, "originalConfig")) = SnapshotAfter
        /\ ~doState.copies =>
               GetProp(heap, taskState, "originalConfig")
                   = getData(doState.originalConfig, configManager.configId)

\* a get has resolved for a device with a stored original config, called with
\* a state that carried another original config
C20_Witness ==
    /\ pc = "resolved"
    /\ WasStored
    /\ CarriedOriginalConfig
    /\ WithoutDbVariables(CGet(Canon(get.before.state), "originalConfig"))
           # WithoutDbVariables(BaselineBefore)

\* the db variables the device returned to the get: the elements of the
\* answer to the read of /tm/sys/db, each with its name and its value
ReturnedDbVariables ==
    UNION {{CGet(Content(heap, reads[i].value), k) : k \in CKeys(Content(heap, reads[i].value))} :
           i \in {j \in 1..Len(reads) : /\ reads[j].kind = "items"
                                        /\ reads[j].status = "fulfilled"
                                        /\ reads[j].path # ""
                                        /\ UrlParse(reads[j].path).pathname = "/tm/sys/db"}}

\* the db variables of state.currentConfig when get was called
PriorDbVariables == CKeys(DbVariablesOf(CGet(Canon(get.before.state), "currentConfig")))

\* the db variables named by the DbVariables objects of the declaration
DeclaredDbVariables ==
    LET common == CGet(Content(heap, get.declaration), "Common")
    IN  UNION {CKeys(CGet(common, key)) \ {"class"} :
               key \in {k \in CKeys(common) : CGet(CGet(common, k), "class") = CStr("DbVariables")}}

\* the db variables of the current config that get has built
FetchedDbVariables == CGet(Content(heap, get.currentConfig), "DbVariables")

\* C21 (as claimed): when a get resolves, a db variable that the device
\* returned is in DbVariables of the current config if and only if it is a
\* db variable of the prior current config or one named by the declaration.
C21_RetrievalScope ==
    pc = "resolved" =>
        \A v \in ReturnedDbVariables :
            CHas(FetchedDbVariables, CGet(v, "name").s)
                <=> CGet(v, "name").s \in PriorDbVariables \cup DeclaredDbVariables

\* C21, for the db variables whose value is not the empty string, and no db
\* variable outside that scope is in the current config
C21_RetrievalScopeOfNonEmptyValues ==
    pc = "resolved" =>
        \A v \in ReturnedDbVariables :
            /\ CHas(FetchedDbVariables, CGet(v, "name").s)
                   => CGet(v, "name").s \in PriorDbVariables \cup DeclaredDbVariables
            /\ (/\ CGet(v, "name").s \in PriorDbVariables \cup DeclaredDbVariables
                /\ CGet(v, "value") # CStr(""))
                   => CGet(FetchedDbVariables, CGet(v, "name").s) = CGet(v, "value")

\* a get has resolved that dropped a db variable out of scope and kept one
\* that only the prior current config names
C21_Witness ==
    /\ pc = "resolved"
    /\ \E v \in ReturnedDbVariables :
           /\ CGet(v, "name").s \notin PriorDbVariables \cup DeclaredDbVariables
           /\ ~CHas(FetchedDbVariables, CGet(v, "name").s)
    /\ \E v \in ReturnedDbVariables :
           /\ CGet(v, "name").s \in PriorDbVariables \ DeclaredDbVariables
           /\ CHas(FetchedDbVariables, CGet(v, "name").s)

\* the config items of the ConfigManager, as a document
ConfigItemsDoc == Content(heap, configManager.configItems)

\* the modules of the device whose provisioning level is not none
ProvisionedOnDevice ==
    LET provisioning == Canon(Resource(bigIp, Read("provision", "/tm/sys/provision")))
    IN  {CGet(CGet(provisioning, k), "name") :
         k \in {j \in CKeys(provisioning) : CGet(CGet(provisioning, j), "level") # CStr("none")}}

\* the i-th config item requires a module that the device has not provisioned
ModuleMissing(i) ==
    /\ CTruthy(CGet(CGet(ConfigItemsDoc, IdxKey(i - 1)), "requiredModule"))
    /\ CGet(CGet(ConfigItemsDoc, IdxKey(i - 1)), "requiredModule") \notin ProvisionedOnDevice

\* another config item of the same class is read
ClassReadElsewhere(i) ==
    \E j \in 1..Len(ReadsOf("items")) :
        /\ ~ModuleMissing(j)
        /\ CGet(CGet(ConfigItemsDoc, IdxKey(j - 1)), "schemaClass")
               = CGet(CGet(ConfigItemsDoc, IdxKey(i - 1)), "schemaClass")

\* C22: once get has asked for the config items, it has issued no read for a
\* config item whose required module is not provisioned and one read, of the
\* path of the item, for every other config item; when no read fails the get
\* resolves, and its current config has nothing of the classes skipped.
C22_ModuleSkip ==
    ReadsOf("items") # <<>> =>
        /\ Len(ReadsOf("items")) = Cardinality(CKeys(ConfigItemsDoc))
        /\ \A i \in 1..Len(ReadsOf("items")) :
               IF ModuleMissing(i)
               THEN /\ ReadsOf("items")[i].path = ""
                    /\ (pc = "resolved" /\ ~ClassReadElsewhere(i)) =>
                           ~CHas(Content(heap, get.currentConfig),
                                 CGet(CGet(ConfigItemsDoc, IdxKey(i - 1)), "schemaClass").s)
               ELSE /\ ReadsOf("items")[i].path # ""
                    /\ UrlParse(ReadsOf("items")[i].path).pathname
                           = CGet(CGet(ConfigItemsDoc, IdxKey(i - 1)), "path").s
        /\ (/\ pc \in {"resolved", "rejected"}
            /\ AllReadsCompleted
            /\ \E i \in 1..Len(ReadsOf("items")) : ModuleMissing(i)) => pc = "resolved"

\* a get has resolved that skipped a config item and read another
C22_Witness ==
    /\ pc = "resolved"
    /\ \E i \in 1..Len(ReadsOf("items")) : ModuleMissing(i)
    /\ \E i \in 1..Len(ReadsOf("items")) : ~ModuleMissing(i) /\ Completed(ReadsOf("items")[i])

\* a get has read a config item whose required module is provisioned
C22_ModuleProvisioned ==
    /\ pc = "resolved"
    /\ \E i \in 1..Len(ReadsOf("items")) :
           /\ CTruthy(CGet(CGet(ConfigItemsDoc, IdxKey(i - 1)), "requiredModule"))
           /\ ~ModuleMissing(i)

\* the value of a marked class in the converged working copy of the first
\* run, and its value in the document the run resolved with
Converged(cls) == GetProp(heap, GetProp(heap, run1.from, "Common"), cls)
Copied(cls) == GetProp(heap, GetProp(heap, run1.final, "Common"), cls)

\* the copy of an array or of an object: another object of the same kind
\* with the same members, each member being the very value of the original
ShallowCopy(cls) ==
    /\ Copied(cls).t = "ref"
    /\ Copied(cls) # Converged(cls)
    /\ heap[Copied(cls).r].k = heap[Converged(cls).r].k
    /\ OwnEntries(heap, Copied(cls)) = OwnEntries(heap, Converged(cls))

\* C23 (as claimed): after process, the value of every marked class in merged
\* is, by the kind of its converged value: for an array a copy of the whole
\* array, for a string, number or boolean the value itself, and for an object
\* a copy with the same members.
C23_CopyByKind ==
    pc = "processed" =>
        \A i \in 1..Len(run1.updatedPaths) :
            LET cls == run1.updatedPaths[i]
            IN  CASE Converged(cls).t \in {"string", "number", "boolean"} ->
                         Copied(cls) = Converged(cls)
                  [] Converged(cls).t = "ref" -> ShallowCopy(cls)
                  [] OTHER -> TRUE

\* C23, for the kinds the code tells apart: arrays, strings and objects
C23_CopyOfArraysStringsObjects ==
    pc = "processed" =>
        \A i \in 1..Len(run1.updatedPaths) :
            LET cls == run1.updatedPaths[i]
            IN  CASE Converged(cls).t = "string" -> Copied(cls) = Converged(cls)
                  [] Converged(cls).t = "ref" -> ShallowCopy(cls)
                  [] Converged(cls).t \in {"number", "boolean"} ->
                         /\ Copied(cls).t = "ref"
                         /\ heap[Copied(cls).r] = [k |-> "obj", e |-> <<>>]
                  [] OTHER -> TRUE

\* the members of interest of the tenants of a declaration: <<tenant, member>>
MembersOf(decl) ==
    UNION {{<<t, c>> : c \in Interesting(CKeys(CGet(decl, t)))} : t \in CTenants(decl)}

\* C24 (as claimed): the domains of the document a parse() returns are the
\* discriminators of the tenant members that bear one; a member without a
\* discriminator creates no domain.
C24_OnlyDiscriminatedContainers ==
    \A i \in ReturnedParses :
        CKeys(Canon(parses[i].text))
            = {CToKey(CGet(ConOf(Canon(parses[i].before), m[1], m[2]), "class")) :
               m \in {n \in MembersOf(Canon(parses[i].before)) :
                         CTruthy(CGet(ConOf(Canon(parses[i].before), n[1], n[2]), "class"))}}

\* C24: what the code does hold to: every member of interest of a tenant is
\* taken as a container, and one without a discriminator files its
\* properties in the domain named undefined.
C24_EveryMemberIsAContainer ==
    \A i \in ReturnedParses :
        /\ CKeys(Canon(parses[i].text))
               = {CToKey(CGet(ConOf(Canon(parses[i].before), m[1], m[2]), "class")) :
                  m \in MembersOf(Canon(parses[i].before))}
        /\ \A m \in MembersOf(Canon(parses[i].before)) :
               CHas(CGet(Canon(parses[i].text),
                         CToKey(CGet(ConOf(Canon(parses[i].before), m[1], m[2]), "class"))),
                    m[1])

\* what the current config holds where the handler of the reference results
\* looks for the instance of the i-th reference:
\* currentConfig[schemaClass][name], name being the raw name of the item
InstanceAtRawName(i) ==
    CGet(CGet(Content(heap, get.currentConfig), get.referenceInfo[i].schemaClass.s),
         get.referenceInfo[i].name.s)

\* C30 (as claimed): while the reference reads are awaited, the current
\* config holds an instance for each of them at currentConfig[schemaClass][name],
\* and a get whose reads all completed is not failed by the splice.
C30_EveryReferenceHasAnInstance ==
    /\ pc = "references" =>
           \A i \in 1..Len(get.referenceInfo) : InstanceAtRawName(i).t = "obj"
    /\ ReferencesWereRead => pc = "resolved"

\* C30, for the raw items whose name does not start with /Common/
C30_PlainNamesHaveAnInstance ==
    /\ pc = "references" =>
           \A i \in 1..Len(get.referenceInfo) :
               ~StartsWith(get.referenceInfo[i].name.s, "/Common/") => InstanceAtRawName(i).t = "obj"
    /\ (/\ ReferencesWereRead
        /\ \A i \in 1..Len(get.referenceInfo) : ~StartsWith(get.referenceInfo[i].name.s, "/Common/"))
           => pc = "resolved"

-----------------------------------------------------------------------------
(* Properties of patchAuth.  They compare the class it returned with the    *)
(* text of its arguments before the call.                                   *)

\* the schemaMerge of the call, its path, and the class and the item
AuthOpts == Canon(auth.text.schemaMerge)
TargetPath ==
    [i \in 1..Cardinality(CKeys(CGet(AuthOpts, "path"))) |->
        CGet(CGet(AuthOpts, "path"), IdxKey(i - 1)).s]
ClassBefore ==
    IF auth.text.authClass = LAbsent THEN Canon(LObj(<<>>)) ELSE Canon(auth.text.authClass)
ItemBefore == Canon(auth.text.authItem)
PatchedClass == Content(heap, auth.patchedClass)

\* an object with one member
CObj1(key, val) == [t |-> "obj", s |-> "", r |-> 0, f |-> [k \in {key} |-> val]]

\* the sub-resource that is merged: the item, a radius server being put
\* under primary or secondary by its name, without the name
SubResource ==
    IF CGet(ItemBefore, "name").t = "string"
          /\ StrIndexOf(CGet(ItemBefore, "name").s, RADIUS_SERVER_PREFIX) > -1
    THEN IF CGet(ItemBefore, "name").s = RADIUS_PRIMARY_SERVER
         THEN CObj1("primary", CWithout(ItemBefore, "name"))
         ELSE IF CGet(ItemBefore, "name").s = RADIUS_SECONDARY_SERVER
         THEN CObj1("secondary", CWithout(ItemBefore, "name"))
         ELSE CAbsent
    ELSE ItemBefore

SubResourceOmitted == SubResource = CAbsent \/ CKeys(SubResource) = {}

\* the value of a content at a path, from part i on
RECURSIVE CAt(_, _, _)
CAt(c, path, i) == IF i > Len(path) THEN c ELSE CAt(CGet(c, path[i]), path, i + 1)

\* every member outside the path is in after as it is in before, and after
\* has no other member but those of the path
RECURSIVE OutsideKept(_, _, _, _)
OutsideKept(before, after, path, i) ==
    \/ i > Len(path)
    \/ /\ CKeys(after) = CKeys(before) \cup {path[i]}
       /\ \A k \in CKeys(before) \ {path[i]} : CGet(after, k) = CGet(before, k)
       /\ i < Len(path) => OutsideKept(CGet(before, path[i]), CGet(after, path[i]), path, i + 1)

\* the value at the target path holds the properties of the sub-resource and
\* the other members of the value that was there
MergedAtTarget ==
    /\ CAt(PatchedClass, TargetPath, 1).t = "obj"
    /\ CKeys(CAt(PatchedClass, TargetPath, 1))
           = CKeys(CAt(ClassBefore, TargetPath, 1)) \cup CKeys(SubResource)
    /\ \A k \in CKeys(CAt(PatchedClass, TargetPath, 1)) :
           CGet(CAt(PatchedClass, TargetPath, 1), k)
               = IF CHas(SubResource, k) THEN CGet(SubResource, k)
                 ELSE CGet(CAt(ClassBefore, TargetPath, 1), k)

\* C25: patchAuth called with a schemaMerge returns: the class as it was (an
\* empty class when there was none) if skipWhenOmitted is set and the
\* sub-resource is undefined or has no property; else the class with, at the
\* path, the value that was there merged with the properties of the
\* sub-resource if the action is add and the sub-resource itself otherwise,
\* every member of the class outside the path being as it was.
C25_SchemaMerge ==
    (pc = "patched" /\ auth.text.schemaMerge # LAbsent) =>
        /\ ~auth.threw
        /\ IF CTruthy(CGet(AuthOpts, "skipWhenOmitted")) /\ SubResourceOmitted
           THEN PatchedClass = ClassBefore
           ELSE /\ IF CGet(AuthOpts, "action") = CStr("add")
                   THEN MergedAtTarget
                   ELSE CAt(PatchedClass, TargetPath, 1) = SubResource
                /\ OutsideKept(ClassBefore, PatchedClass, TargetPath, 1)

\* patchAuth has merged a sub-resource, by add, into a value that held a
\* property of the sub-resource and another one, in a class with members
\* outside the path
C25_Witness ==
    /\ pc = "patched"
    /\ auth.text.schemaMerge # LAbsent
    /\ CGet(AuthOpts, "action") = CStr("add")
    /\ ~SubResourceOmitted
    /\ CKeys(CAt(ClassBefore, TargetPath, 1)) \cap CKeys(SubResource) # {}
    /\ CKeys(CAt(ClassBefore, TargetPath, 1)) \ CKeys(SubResource) # {}
    /\ CKeys(ClassBefore) \ {TargetPath[1]} # {}

\* patchAuth has skipped the merge of an omitted sub-resource
C25_Skipped ==
    /\ pc = "patched"
    /\ auth.text.schemaMerge # LAbsent
    /\ CTruthy(CGet(AuthOpts, "skipWhenOmitted"))
    /\ SubResourceOmitted
    /\ auth.text.authClass # LAbsent

C25_NoThrow == ~auth.threw

-----------------------------------------------------------------------------
(* Properties of two gets on one store                                      *)

\* the ids the store holds an original config for
StoredIds(store) == {store[i].key : i \in 1..Len(store)}

\* what the store holds under id
StoredContent(h, store, id) == Content(h, getData(store, id))

\* C29 (as claimed): in every step of two gets that were both called when no
\* original config was stored or carried, an original config that enters the
\* store is the current config of the get whose handler stores it, and one
\* the store already holds stays what it is, but for db variables it did not
\* hold.
C29_FirstSnapshotKept ==
    [][get.before.stored = <<>> =>
       \A id \in StoredIds(doState'.originalConfig) :
           IF id \in StoredIds(doState.originalConfig)
           THEN /\ WithoutDbVariables(StoredContent(heap', doState'.originalConfig, id))
                       = WithoutDbVariables(StoredContent(heap, doState.originalConfig, id))
                /\ \A K \in CKeys(DbVariablesOf(StoredContent(heap, doState.originalConfig, id))) :
                       CGet(DbVariablesOf(StoredContent(heap', doState'.originalConfig, id)), K)
                           = CGet(DbVariablesOf(StoredContent(heap, doState.originalConfig, id)), K)
           ELSE StoredContent(heap', doState'.originalConfig, id)
                    = Content(heap', GetProp(heap', taskState', "currentConfig"))]_vars

\* C29, but for the db variables that the stored original config holds with a
\* value that JavaScript takes as false
C29_FirstSnapshotKeptButFalsyDbVariables ==
    [][get.before.stored = <<>> =>
       \A id \in StoredIds(doState'.originalConfig) :
           IF id \in StoredIds(doState.originalConfig)
           THEN /\ WithoutDbVariables(StoredContent(heap', doState'.originalConfig, id))
                       = WithoutDbVariables(StoredContent(heap, doState.originalConfig, id))
                /\ \A K \in CKeys(DbVariablesOf(StoredContent(heap, doState.originalConfig, id))) :
                       CTruthy(CGet(DbVariablesOf(StoredContent(heap, doState.originalConfig, id)), K)) =>
                           CGet(DbVariablesOf(StoredContent(heap', doState'.originalConfig, id)), K)
                               = CGet(DbVariablesOf(StoredContent(heap, doState.originalConfig, id)), K)
           ELSE StoredContent(heap', doState'.originalConfig, id)
                    = Content(heap', GetProp(heap', taskState', "currentConfig"))]_vars

\* both gets were called before either had stored, and both have resolved
C29_BothResolved ==
    ~(pc = "resolved" /\ other.pc = "resolved" /\ get.before.stored = <<>>
      /\ other.get.before.stored = <<>>)

-----------------------------------------------------------------------------
(* Properties of SystemHandler                                              *)

\* the steps of process in the order the declaration is to be applied
SystemSteps == <<"DbVariables", "DNS", "NTP", "hostname", "User", "License">>
StepNo(step) == CHOOSE n \in 1..Len(SystemSteps) : SystemSteps[n] = step

SystemCalls == system.calls
SystemCommon == Get(heap, system.declaration, "Common")

\* call i was rejected and not tried again
CallFailed(i) ==
    /\ SystemCalls[i].status = "rejected"
    /\ ~\E k \in (i + 1)..Len(SystemCalls) :
           SystemCalls[k].then = "isDhcpRunning" /\ SystemCalls[i].then = "isDhcpRunning"
               /\ SystemCalls[k].step = SystemCalls[i].step

\* C26: the steps of process start in the order DbVariables, DNS, NTP,
\* hostname, User, License; a call of a step is made only when every call of
\* the steps before it has been answered and none has failed; once process
\* has rejected, with the error of a call of the step that was running, no
\* call of a later step is ever made; process resolves only after all six
\* steps; and without Common process resolves with no call made.
C26_StepsInOrder ==
    pc = "system" =>
        /\ \E n \in 0..Len(SystemSteps) : system.started = SubSeq(SystemSteps, 1, n)
        /\ \A i \in 1..Len(SystemCalls) :
               /\ \E n \in 1..Len(system.started) : system.started[n] = SystemCalls[i].step
               /\ \A j \in (i + 1)..Len(SystemCalls) :
                      StepNo(SystemCalls[i].step) <= StepNo(SystemCalls[j].step)
               /\ \A j \in 1..Len(SystemCalls) :
                      StepNo(SystemCalls[i].step) < StepNo(SystemCalls[j].step) =>
                          SystemCalls[i].status # "pending" /\ ~CallFailed(i)
               /\ CallFailed(i) /\ SystemCalls[i].chain = "main" => system.status = "rejected"
        /\ system.status = "rejected" =>
               /\ system.error \in 1..Len(SystemCalls)
               /\ SystemCalls[system.error].step = system.started[Len(system.started)]
               /\ \A j \in 1..Len(SystemCalls) :
                      StepNo(SystemCalls[j].step) <= StepNo(SystemCalls[system.error].step)
        /\ system.status = "resolved" /\ Truthy(SystemCommon) =>
               /\ system.started = SystemSteps
               /\ \A i \in 1..Len(SystemCalls) : SystemCalls[i].status # "pending" /\ ~CallFailed(i)
        /\ system.status # "idle" /\ ~Truthy(SystemCommon) =>
               system.status = "resolved" /\ SystemCalls = <<>>

\* a call of the NTP step has failed after the DNS step had made calls, and
\* process has rejected
C26_Witness ==
    /\ system.status = "rejected"
    /\ SystemCalls[system.error].step = "NTP"
    /\ \E i \in 1..Len(SystemCalls) : SystemCalls[i].step = "DNS"
    /\ Truthy(Get(heap, SystemCommon, "License"))

\* process has resolved after calls in each of the six steps
C26_AllSteps ==
    /\ system.status = "resolved"
    /\ \A n \in 1..Len(SystemSteps) : \E i \in 1..Len(SystemCalls) : SystemCalls[i].step = SystemSteps[n]

\* process has resolved for a declaration without Common
C26_NoCommon == system.status = "resolved" /\ ~Truthy(SystemCommon)

\* the calls that handleLicensePool has made with op
PoolCalls(op) ==
    {i \in 1..Len(SystemCalls) : SystemCalls[i].fn = "handleLicensePool" /\ SystemCalls[i].op = op}

SystemLicense == Get(heap, SystemCommon, "License")

LicensePoolOrder ==
    /\ \A l \in PoolCalls("onboard.licenseViaBigIq") :
           /\ Truthy(Get(heap, SystemLicense, "licensePool"))
           /\ \A r \in PoolCalls("onboard.revokeLicenseViaBigIq") :
                  r < l /\ SystemCalls[r].status = "fulfilled"
           /\ Truthy(Get(heap, SystemLicense, "revokeFrom")) =>
                  PoolCalls("onboard.revokeLicenseViaBigIq") # {}
    /\ \A a \in PoolCalls("active") :
           /\ TypeOf(Get(heap, SystemLicense, "licensePool")) # "undefined"
           /\ \E l \in PoolCalls("onboard.licenseViaBigIq") :
                  l < a /\ SystemCalls[l].status = "fulfilled"
    /\ (\E r \in PoolCalls("onboard.revokeLicenseViaBigIq") : SystemCalls[r].status = "rejected") =>
           PoolCalls("onboard.licenseViaBigIq") = {}

\* C27 (as claimed): licensing via BIG-IQ is requested only for a license
\* pool and only after the revoke, if there is one to make, has been
\* requested and has resolved; the device is waited for to become active only
\* when licensePool is defined and only after a licensing that has resolved,
\* so never after a revoke alone; and after a revoke that failed no licensing
\* is requested.
C27_LicensePoolOrder == pc = "system" => LicensePoolOrder

\* C27, for the declarations whose licensePool is not the empty string
C27_LicensePoolOrderOfNamedPools ==
    pc = "system" /\ Get(heap, SystemLicense, "licensePool") # Str("") => LicensePoolOrder

\* a pool was revoked from, then licensed from, and the device is waited for
C27_RevokedThenLicensed ==
    /\ PoolCalls("onboard.revokeLicenseViaBigIq") # {}
    /\ PoolCalls("onboard.licenseViaBigIq") # {}
    /\ PoolCalls("active") # {}

\* a revoke alone has resolved and process with it
C27_RevokeOnly ==
    /\ PoolCalls("onboard.revokeLicenseViaBigIq") # {}
    /\ TypeOf(Get(heap, SystemLicense, "licensePool")) = "undefined"
    /\ system.status = "resolved"

\* the calls that disableDhcpOptions has made in a step, and the restarts of
\* dhclient it has asked for
DisableCalls(step, op) ==
    {i \in 1..Len(SystemCalls) :
         SystemCalls[i].fn = "disableDhcpOptions" /\ SystemCalls[i].op = op /\ SystemCalls[i].step = step}
DisableRestarts(step) ==
    {i \in 1..Len(SystemCalls) :
         /\ SystemCalls[i].fn = "restartDhcp" /\ SystemCalls[i].op = "create"
         /\ SystemCalls[i].by = "disableDhcpOptions" /\ SystemCalls[i].step = step}

\* the device has answered the list of call i with request options, one
\* of which is to be disabled
ToDisable(i) == {SystemCalls[i].opts[n] : n \in 1..Len(SystemCalls[i].opts)}
NeedsWrite(i) ==
    /\ SystemCalls[i].status = "fulfilled"
    /\ SystemCalls[i].answer.present
    /\ SystemCalls[i].answer.hasRequestOptions
    /\ \E n \in 1..Len(SystemCalls[i].answer.requestOptions) :
           SystemCalls[i].answer.requestOptions[n] \in ToDisable(i)

\* C28: in either step that calls disableDhcpOptions, the request options
\* are written if and only if the device has listed request options of which
\* at least one is to be disabled; what is written is the list the device
\* gave without the options to disable, in its order; and the restart of
\* dhclient is asked for if and only if the write was made and has resolved.
C28_WritesOnlyWhenNeeded ==
    pc = "system" =>
        \A step \in {"DNS", "NTP"} :
            /\ Cardinality(DisableCalls(step, "list")) <= 1
            /\ DisableCalls(step, "list") = {} =>
                   DisableCalls(step, "modify") = {} /\ DisableRestarts(step) = {}
            /\ \A i \in DisableCalls(step, "list") :
                   /\ DisableCalls(step, "modify") # {} <=> NeedsWrite(i)
                   /\ \A m \in DisableCalls(step, "modify") :
                          /\ m = i + 1
                          /\ SystemCalls[m].body
                                 = SelectSeq(SystemCalls[i].answer.requestOptions,
                                             LAMBDA o : o \notin ToDisable(i))
                   /\ DisableRestarts(step) # {} <=>
                          \E m \in DisableCalls(step, "modify") : SystemCalls[m].status = "fulfilled"
                   /\ \A r \in DisableRestarts(step) : r = i + 2

\* request options were written, some kept and some not, and dhclient was
\* asked to restart
C28_Witness ==
    \E step \in {"DNS", "NTP"} :
        \E i \in DisableCalls(step, "list"), m \in DisableCalls(step, "modify") :
            /\ DisableRestarts(step) # {}
            /\ SystemCalls[m].body # <<>>
            /\ Len(SystemCalls[m].body) < Len(SystemCalls[i].answer.requestOptions)

\* the device listed request options none of which was to be disabled, and
\* the step went on without a write
C28_NothingToDisable ==
    \E i \in DisableCalls("NTP", "list"), j \in 1..Len(SystemCalls) :
        /\ SystemCalls[i].answer.hasRequestOptions
        /\ SystemCalls[i].answer.requestOptions # <<>>
        /\ ~NeedsWrite(i)
        /\ SystemCalls[j].op = "replace" /\ SystemCalls[j].step = "NTP"

====
